---- MODULE Spec2Model ----
(***************************************************************************)
(* A model of the side-by-side diff viewer of pi-extensions/diff.ts: the   *)
(* DiffViewer controller (navigation, scrolling, refresh, compose, the     *)
(* highlight scheduler and its timers) and the unified-diff parser.        *)
(*                                                                         *)
(* JavaScript runs every handler to completion, so each handler, timer     *)
(* callback and continuation after an await is one action.                 *)
(***************************************************************************)
EXTENDS Integers, Sequences, FiniteSets, TLC

VARIABLES
    \* ---- DiffViewer fields (diff.ts 537-569)
    snapshot,              \* snapshot.files: sequence of ParsedDiffFile
    fileIndex,
    scrollOffset,
    refreshing,
    statusMessage,
    closed,
    composingMode,
    composeText,
    composeCursor,
    sendingMessage,
    splitRowsCache,        \* Map<number, SplitRow[]>, as a function
    bodyLayoutCache,       \* Map<"fileIndex:width", BodyLayout>, as a function
    sidebarDataCache,      \* <<SidebarData>>, or <<>> for null
    highlightGeneration,
    highlightCache,        \* Map<key, styled text>, as a function
    highlightQueueHigh,
    highlightQueueLow,
    highlightTimer,        \* the field holds a handle (TRUE) or null (FALSE)
    highlightResumeTimer,  \* the field holds a handle (TRUE) or null (FALSE)
    \* ---- the host: timers, promises in flight, render requests
    workerTimers,          \* live setTimeout(processHighlightChunk, 0) callbacks
    resumeTimers,          \* live setTimeout(resume, 120) callbacks
    refreshCalls,          \* onRefresh() promises in flight
    sendCalls,             \* onQueueMessage() promises in flight: the mode of each
    highlightTotal,
    highlightDone,
    renderRequested,       \* tui.requestRender() was called since the last render
    \* ---- parseDiffFiles locals (diff.ts 80-85), the text read so far
    input,
    files,
    currentFile,           \* <<file>>, or <<>> for null
    currentHunk,           \* TRUE when not null: it is then the last hunk of currentFile
    currentOldLine,
    currentNewLine,
    parseDone,
    \* ---- one call of a method on its own: its arguments and locals, and
    \* <<result>> once it has returned
    callArgs,
    callResult,
    \* ---- the footer extension's closure (custom-footer.ts 230-238) and its host
    gitBranch,             \* what footerData.getGitBranch() returns: <<text>>, or <<>> for null
    footerInstalled,       \* session_start has installed the footer
    currentBranch,         \* <<branch>>, or <<>> for null
    prUrl,                 \* <<url>>, or <<>> for null; a url names the branch it was resolved for
    prBranch,              \* <<branch>>, or <<>> for null
    lookups,               \* the calls of refreshPrUrl waiting at their await
    lookupsStarted,        \* how many there have been
    footerFrame,           \* what the last render of row 1 showed: <<[branch, link]>>, or <<>>
    \* ---- the todo list modal's closure (src/unnamed/part_000 196-207) and its host
    modalOpen,             \* ctx.ui.custom() is showing the modal: done() has not been called
    modalTodos,            \* each element is <<todo>>, or <<>> for undefined
    selected,
    grabbedIndex,          \* <<index>>, or <<>> for undefined
    grabSnapshot,          \* <<list>>, or <<>> for undefined
    pendingDeleteIndex,    \* <<index>>, or <<>> for undefined
    pendingDeleteAt,       \* the time stamp seen from now: Never (0), Recent or Expired
    statusLine,
    modalMode,             \* mode
    addText,
    addCursor,
    editIndex,             \* <<index>>, or <<>> for undefined
    todoFile,              \* the list in ~/.pi/todo/todo.json
    modalThrew             \* a handler of the modal ended with a TypeError

viewerVars == <<snapshot, fileIndex, scrollOffset, refreshing, statusMessage, closed,
                composingMode, composeText, composeCursor, sendingMessage,
                splitRowsCache, bodyLayoutCache, sidebarDataCache,
                highlightGeneration, highlightCache, highlightQueueHigh,
                highlightQueueLow, highlightTimer, highlightResumeTimer,
                highlightTotal, highlightDone,
                workerTimers, resumeTimers, refreshCalls, sendCalls,
                renderRequested>>

parserVars == <<input, files, currentFile, currentHunk, currentOldLine,
                currentNewLine, parseDone>>

callVars == <<callArgs, callResult>>

footerVars == <<gitBranch, footerInstalled, currentBranch, prUrl, prBranch, lookups,
                lookupsStarted, footerFrame>>

todoVars == <<modalOpen, modalTodos, selected, grabbedIndex, grabSnapshot, pendingDeleteIndex,
              pendingDeleteAt, statusLine, modalMode, addText, addCursor, editIndex,
              todoFile, modalThrew>>

vars == <<viewerVars, parserVars, callVars, footerVars, todoVars>>

Null == "null"
NoLine == -1

Max(a, b) == IF a >= b THEN a ELSE b
Min(a, b) == IF a <= b THEN a ELSE b

RECURSIVE SeqSum(_)
SeqSum(s) == IF s = <<>> THEN 0 ELSE Head(s) + SeqSum(Tail(s))

SeqRange(s) == {s[i] : i \in 1..Len(s)}

(***************************************************************************)
(* Bounds of the model.                                                    *)
(***************************************************************************)
MaxGen == 1          \* highlightGeneration is capped here
MaxScroll == 4       \* scrollOffset is capped here
MaxComposeLen == 1   \* composeText is at most this long
MaxLines == 4        \* lines of diff text fed to the parser

(***************************************************************************)
(* Program constants.                                                      *)
(***************************************************************************)
MinViewport == 8         \* viewportHeight: Math.max(8, rows - 10)
ViewportMargin == 10
MinSafeWidth == 40       \* render: Math.max(40, width)
MinSidebar == 22         \* sidebarWidth
MaxSidebar == 40
MinContentWidth == 24    \* render: Math.max(24, ...)
SeparatorWidth == 3      \* visibleWidth(" | ")
MinSideWidth == 12       \* rowRenderMetrics
MinNumberWidth == 4
NumberPadding == 3
ChunkTaskLimit == 120    \* processHighlightChunk: processed < 120
WheelStep == 3
FastStepMin == 12
PageStepMin == 6

(***************************************************************************)
(* The data the viewer shows.  A path is kept as its "/"-separated parts.  *)
(***************************************************************************)
DiffLine(type, text, old, new) ==
    [type |-> type, text |-> text, oldLineNumber |-> old, newLineNumber |-> new]

Absent == [type |-> "absent", text |-> "", oldLineNumber |-> NoLine, newLineNumber |-> NoLine]

DiffFile(path, binary, hunks, adds, dels, maxOld, maxNew) ==
    [oldPath |-> path, newPath |-> path, status |-> "modified", isBinary |-> binary,
     additions |-> adds, deletions |-> dels, hunks |-> hunks,
     maxOldLineNumber |-> maxOld, maxNewLineNumber |-> maxNew]

FileWide ==
    DiffFile(<<"src", "a.ts">>, FALSE,
             <<[header |-> "@@ -1,1 +1,2 @@",
                lines |-> <<DiffLine("context", "wide", 1, 1), DiffLine("add", "y", NoLine, 2)>>]>>,
             1, 0, 1, 2)

FileBinary == DiffFile(<<"src", "logo.png">>, TRUE, <<>>, 0, 0, 0, 0)

FilePlain ==
    DiffFile(<<"LICENSE">>, FALSE,
             <<[header |-> "@@ -1,1 +1,1 @@",
                lines |-> <<DiffLine("context", "z", 1, 1)>>]>>,
             0, 0, 1, 1)

\* What onRefresh() can deliver, and what the viewer is constructed with.
SnapshotPool == { <<FileBinary, FileWide>>, <<FilePlain>>, <<>> }

InitialSnapshots == { <<FileBinary, FileWide>> }

\* The terminal: widths handed to render, and tui.terminal.rows.
Widths == {40}
TermRows == {12, 20}

(***************************************************************************)
(* The host's primitives, at their interface.                              *)
(***************************************************************************)
\* visibleWidth of a line's text
TextWidth(text) == IF text = "wide" THEN 45 ELSE IF text = "" THEN 0 ELSE 1

\* wrapTextWithAnsi(text, width).length
WrapCount(text, width) ==
    LET w == TextWidth(text) IN IF w = 0 THEN 0 ELSE (w + width - 1) \div width

\* getLanguageFromPath(path)
LanguageFromPath(path) ==
    IF path = <<>> THEN Null
    ELSE IF path[Len(path)] \in {"a.ts"} THEN "typescript" ELSE Null

\* highlightCode(text, language) throws for this text
TokenizerThrows(text) == text = "y"

\* String(n).length for n >= 0
RECURSIVE Digits(_)
Digits(n) == IF n < 10 THEN 1 ELSE 1 + Digits(n \div 10)

(***************************************************************************)
(* toSplitRows (diff.ts 214-245)                                           *)
(***************************************************************************)
HunkRow(header) == [type |-> "hunk", header |-> header, left |-> Absent, right |-> Absent]
LineRow(l, r) == [type |-> "line", header |-> "", left |-> l, right |-> r]

\* the index after the run of non-context lines that starts at idx
RECURSIVE RunEnd(_, _)
RunEnd(lines, idx) ==
    IF idx > Len(lines) \/ lines[idx].type = "context" THEN idx
    ELSE RunEnd(lines, idx + 1)

OfType(lines, type) == SelectSeq(lines, LAMBDA l : l.type = type)

\* variant: the added lines are put on the left and the removed lines on the right
BlockRows_Swapped(run) ==
    LET removes == OfType(run, "remove")
        adds == OfType(run, "add")
        blockRows == Max(Len(removes), Len(adds))
    IN [i \in 1..blockRows |->
            LineRow(IF i <= Len(adds) THEN adds[i] ELSE Absent,
                    IF i <= Len(removes) THEN removes[i] ELSE Absent)]

\* variant: a block has as many rows as its shorter side
BlockRows_Shorter(run) ==
    LET removes == OfType(run, "remove")
        adds == OfType(run, "add")
    IN  [i \in 1..Min(Len(removes), Len(adds)) |-> LineRow(removes[i], adds[i])]

BlockRows(run) ==
    LET removes == OfType(run, "remove")
        adds == OfType(run, "add")
        blockRows == Max(Len(removes), Len(adds))
    IN [i \in 1..blockRows |->
            LineRow(IF i <= Len(removes) THEN removes[i] ELSE Absent,
                    IF i <= Len(adds) THEN adds[i] ELSE Absent)]

RECURSIVE HunkLineRows(_, _)
HunkLineRows(lines, idx) ==
    IF idx > Len(lines) THEN <<>>
    ELSE IF lines[idx].type = "context"
         THEN <<LineRow(lines[idx], lines[idx])>> \o HunkLineRows(lines, idx + 1)
         ELSE LET end == RunEnd(lines, idx)
              IN BlockRows(SubSeq(lines, idx, end - 1)) \o HunkLineRows(lines, end)

RECURSIVE HunksRows(_)
HunksRows(hunks) ==
    IF hunks = <<>> THEN <<>>
    ELSE <<HunkRow(Head(hunks).header)>> \o HunkLineRows(Head(hunks).lines, 1)
         \o HunksRows(Tail(hunks))

toSplitRows(file) == HunksRows(file.hunks)

(***************************************************************************)
(* Layout (diff.ts 878-884, 1144-1187)                                     *)
(***************************************************************************)
viewportHeight(rows) == Max(MinViewport, rows - ViewportMargin)

sidebarWidth(totalWidth) == Max(MinSidebar, Min(MaxSidebar, (totalWidth * 28) \div 100))

\* render's contentWidth for a requested width
BodyWidth(width) ==
    LET safeWidth == Max(MinSafeWidth, width)
    IN Max(MinContentWidth, safeWidth - sidebarWidth(safeWidth) - SeparatorWidth)

rowRenderMetrics(file, width) ==
    LET sideWidth == Max(MinSideWidth, (width - SeparatorWidth) \div 2)
        leftNumberWidth == Max(MinNumberWidth, Digits(Max(file.maxOldLineNumber, 9999)))
        rightNumberWidth == Max(MinNumberWidth, Digits(Max(file.maxNewLineNumber, 9999)))
    IN [width |-> width, sideWidth |-> sideWidth,
        leftNumberWidth |-> leftNumberWidth, rightNumberWidth |-> rightNumberWidth,
        leftContentWidth |-> Max(1, sideWidth - (leftNumberWidth + NumberPadding)),
        rightContentWidth |-> Max(1, sideWidth - (rightNumberWidth + NumberPadding))]

measureSideWrapCount(line, contentWidth) ==
    IF line = Absent THEN 1
    ELSE LET wrapped == WrapCount(IF line.text = "" THEN " " ELSE line.text, contentWidth)
         IN IF wrapped > 0 THEN wrapped ELSE 1

RowHeight(row, metrics) ==
    IF row.type = "line"
    THEN Max(measureSideWrapCount(row.left, metrics.leftContentWidth),
             measureSideWrapCount(row.right, metrics.rightContentWidth))
    ELSE 1

\* variant: every row starts one line after the row before it
BuildBodyLayout_RowPerLine(rows, file, width) ==
    LET metrics == rowRenderMetrics(file, width)
        rowHeights == [i \in 1..Len(rows) |-> RowHeight(rows[i], metrics)]
    IN [metrics |-> metrics, rowStarts |-> [i \in 1..Len(rows) |-> i - 1],
        rowHeights |-> rowHeights, totalLines |-> SeqSum(rowHeights)]

\* what getBodyLayout computes on a cache miss
BuildBodyLayout(rows, file, width) ==
    LET metrics == rowRenderMetrics(file, width)
        rowHeights == [i \in 1..Len(rows) |-> RowHeight(rows[i], metrics)]
        rowStarts == [i \in 1..Len(rows) |-> SeqSum(SubSeq(rowHeights, 1, i - 1))]
    IN [metrics |-> metrics, rowStarts |-> rowStarts, rowHeights |-> rowHeights,
        totalLines |-> SeqSum(rowHeights)]

(***************************************************************************)
(* Maps, as functions with a growing domain.                               *)
(***************************************************************************)
EmptyMap == [k \in {} |-> Null]

MapSet(m, key, value) == [k \in DOMAIN m \cup {key} |-> IF k = key THEN value ELSE m[k]]

\* the files of a snapshot are indexed from 0, as in the code
FileCount(snap) == Len(snap)
FileAt(snap, index) == snap[index + 1]
ValidIndex(snap, index) == index >= 0 /\ index < FileCount(snap)

(***************************************************************************)
(* Sidebar (diff.ts 999-1007, 1027-1086)                                   *)
(***************************************************************************)
getSyntaxPath(file) == IF file.newPath # <<>> THEN file.newPath ELSE file.oldPath

\* the members of s in the order of their first occurrences
Distinct(s) ==
    LET firsts == SelectSeq([k \in 1..Len(s) |-> k], LAMBDA k : \A j \in 1..k - 1 : s[j] # s[k])
    IN [i \in 1..Len(firsts) |-> s[firsts[i]]]

RECURSIVE Walk(_, _, _)
RECURSIVE WalkDirs(_, _, _, _)

\* variant: a directory's own files are listed before its sub-directories
Walk_FilesFirst(snap, idxs, depth) ==
    LET below == SelectSeq(idxs, LAMBDA i : Len(getSyntaxPath(FileAt(snap, i))) > depth + 1)
        here == SelectSeq(idxs, LAMBDA i : Len(getSyntaxPath(FileAt(snap, i))) <= depth + 1)
        names == Distinct([k \in 1..Len(below) |-> getSyntaxPath(FileAt(snap, below[k]))[depth + 1]])
    IN [k \in 1..Len(here) |-> [kind |-> "file", depth |-> depth, name |-> "", fileIndex |-> here[k]]]
       \o WalkDirs(snap, below, names, depth)

\* walk(node, depth) for the trie node holding the files idxs (in snapshot order)
Walk(snap, idxs, depth) ==
    LET below == SelectSeq(idxs, LAMBDA i : Len(getSyntaxPath(FileAt(snap, i))) > depth + 1)
        here == SelectSeq(idxs, LAMBDA i : Len(getSyntaxPath(FileAt(snap, i))) <= depth + 1)
        names == Distinct([k \in 1..Len(below) |-> getSyntaxPath(FileAt(snap, below[k]))[depth + 1]])
    IN WalkDirs(snap, below, names, depth)
       \o [k \in 1..Len(here) |-> [kind |-> "file", depth |-> depth, name |-> "", fileIndex |-> here[k]]]

WalkDirs(snap, below, names, depth) ==
    IF names = <<>> THEN <<>>
    ELSE <<[kind |-> "dir", depth |-> depth, name |-> Head(names), fileIndex |-> -1]>>
         \o Walk(snap,
                 SelectSeq(below, LAMBDA i : getSyntaxPath(FileAt(snap, i))[depth + 1] = Head(names)),
                 depth + 1)
         \o WalkDirs(snap, below, Tail(names), depth)

buildSidebarEntries(snap) == Walk(snap, [k \in 1..FileCount(snap) |-> k - 1], 0)

\* what sidebarData computes on a cache miss
BuildSidebarData(snap) ==
    LET entries == buildSidebarEntries(snap)
        filePos == SelectSeq([k \in 1..Len(entries) |-> k], LAMBDA k : entries[k].kind = "file")
        fileOrder == [k \in 1..Len(filePos) |-> entries[filePos[k]].fileIndex]
    IN [entries |-> entries,
        fileOrder |-> fileOrder,
        fileOrderIndex |-> [f \in SeqRange(fileOrder) |->
                               (CHOOSE k \in 1..Len(fileOrder) :
                                   fileOrder[k] = f /\ \A j \in k + 1..Len(fileOrder) : fileOrder[j] # f) - 1],
        fileEntryIndex |-> [f \in SeqRange(fileOrder) |->
                               (CHOOSE k \in 1..Len(entries) :
                                   /\ entries[k].kind = "file" /\ entries[k].fileIndex = f
                                   /\ \A j \in k + 1..Len(entries) :
                                        ~(entries[j].kind = "file" /\ entries[j].fileIndex = f)) - 1]]

\* sidebarData(): the cached value, or a fresh one
sidebarData(cache, snap) == IF cache # <<>> THEN cache[1] ELSE BuildSidebarData(snap)

(***************************************************************************)
(* Highlight keys and the queue build (diff.ts 1009-1013, 1315-1389)       *)
(***************************************************************************)
getSyntaxLanguage(file) ==
    LET path == getSyntaxPath(file) IN IF path = <<>> THEN Null ELSE LanguageFromPath(path)

highlightKey(gen, index, line, text) ==
    [generation |-> gen, fileIndex |-> index, type |-> line.type,
     oldLine |-> line.oldLineNumber, newLine |-> line.newLineNumber, text |-> text]

RECURSIVE HunkLines(_)
HunkLines(hunks) == IF hunks = <<>> THEN <<>> ELSE Head(hunks).lines \o HunkLines(Tail(hunks))

LineText(line) == IF line.text = "" THEN " " ELSE line.text

\* the tasks of one file, one per distinct key, in line order
FileTasks(snap, index, gen) ==
    LET file == FileAt(snap, index)
        language == getSyntaxLanguage(file)
        lines == HunkLines(file.hunks)
    IN IF file.isBinary \/ language = Null THEN <<>>
       ELSE Distinct([k \in 1..Len(lines) |->
                        [generation |-> gen,
                         cacheKey |-> highlightKey(gen, index, lines[k], LineText(lines[k])),
                         text |-> LineText(lines[k]),
                         language |-> language]])

RECURSIVE TasksOfFiles(_, _, _)
TasksOfFiles(snap, order, gen) ==
    IF order = <<>> THEN <<>>
    ELSE FileTasks(snap, Head(order), gen) \o TasksOfFiles(snap, Tail(order), gen)

\* rebuildHighlightQueue's visiting order: the primary file, then the others
QueueOrder(snap, primary) ==
    (IF ValidIndex(snap, primary) THEN <<primary>> ELSE <<>>)
    \o SelectSeq([k \in 1..FileCount(snap) |-> k - 1], LAMBDA i : i # primary)

\* variant: cached keys are queued again
NotCached_All(tasks, cache) == tasks

NotCached(tasks, cache) == SelectSeq(tasks, LAMBDA t : t.cacheKey \notin DOMAIN cache)

\* the queues and counters rebuildHighlightQueue builds (diff.ts 1342-1387)
BuildQueues(snap, primary, gen, cache) ==
    LET order == QueueOrder(snap, primary)
        first == FileTasks(snap, Head(order), gen)
        rest == TasksOfFiles(snap, Tail(order), gen)
    IN [high |-> NotCached(first, cache),
        low |-> NotCached(rest, cache),
        total |-> Len(first) + Len(rest),
        done |-> Len(first) + Len(rest) - Len(NotCached(first, cache)) - Len(NotCached(rest, cache))]

(***************************************************************************)
(* The highlight scheduler's fields and timers, handled as one record by   *)
(* the operations that several handlers call.                              *)
(* (highlightQueuedKeys is only ever written, never read: see             *)
(* QueuedKeysOf for its value after a rebuild.)                            *)
(***************************************************************************)
Scheduler ==
    [high |-> highlightQueueHigh, low |-> highlightQueueLow,
     timer |-> highlightTimer, resume |-> highlightResumeTimer,
     workerTimers |-> workerTimers, resumeTimers |-> resumeTimers,
     total |-> highlightTotal, done |-> highlightDone]

SetScheduler(hs) ==
    /\ highlightQueueHigh' = hs.high
    /\ highlightQueueLow' = hs.low
    /\ highlightTimer' = hs.timer
    /\ highlightResumeTimer' = hs.resume
    /\ workerTimers' = hs.workerTimers
    /\ resumeTimers' = hs.resumeTimers
    /\ highlightTotal' = hs.total
    /\ highlightDone' = hs.done

\* if (this.highlightTimer) { clearTimeout(this.highlightTimer); this.highlightTimer = null }
ClearWorkerTimer(hs) ==
    IF hs.timer THEN [hs EXCEPT !.timer = FALSE, !.workerTimers = Max(0, @ - 1)] ELSE hs

\* if (this.highlightResumeTimer) { clearTimeout(...); this.highlightResumeTimer = null }
ClearResumeTimer(hs) ==
    IF hs.resume THEN [hs EXCEPT !.resume = FALSE, !.resumeTimers = Max(0, @ - 1)] ELSE hs

ClearQueues(hs) == [hs EXCEPT !.high = <<>>, !.low = <<>>]

\* variant: the worker is never started
startHighlightWorker_NeverArms(hs, isClosed) == hs

\* variant: the timer is armed whether or not a task is queued
startHighlightWorker_EmptyQueues(hs, isClosed) ==
    IF isClosed \/ hs.timer THEN hs
    ELSE [hs EXCEPT !.timer = TRUE, !.workerTimers = @ + 1]

\* startHighlightWorker (diff.ts 1391-1396)
startHighlightWorker(hs, isClosed) ==
    IF isClosed \/ hs.timer \/ (hs.high = <<>> /\ hs.low = <<>>) THEN hs
    ELSE [hs EXCEPT !.timer = TRUE, !.workerTimers = @ + 1]

\* variant: a pending resume timer survives the rebuild
rebuildHighlightQueue_KeepsResume(hs, snap, primary, gen, cache, isClosed) ==
    IF isClosed THEN hs
    ELSE LET cleared == ClearWorkerTimer(ClearQueues(hs))
         IN IF FileCount(snap) = 0 THEN [cleared EXCEPT !.total = 0, !.done = 0]
            ELSE LET q == BuildQueues(snap, primary, gen, cache)
                 IN startHighlightWorker(
                        [cleared EXCEPT !.high = q.high, !.low = q.low,
                                        !.total = q.total, !.done = q.done],
                        isClosed)

\* rebuildHighlightQueue (diff.ts 1321-1389)
rebuildHighlightQueue(hs, snap, primary, gen, cache, isClosed) ==
    IF isClosed THEN hs
    ELSE LET cleared == ClearWorkerTimer(ClearQueues(ClearResumeTimer(hs)))
         IN IF FileCount(snap) = 0 THEN [cleared EXCEPT !.total = 0, !.done = 0]
            ELSE LET q == BuildQueues(snap, primary, gen, cache)
                 IN startHighlightWorker(
                        [cleared EXCEPT !.high = q.high, !.low = q.low,
                                        !.total = q.total, !.done = q.done],
                        isClosed)

\* variant: the queues are left as they are
pauseHighlightUntilIdle_KeepsQueues(hs) ==
    LET cleared == ClearResumeTimer(ClearWorkerTimer(hs))
    IN [cleared EXCEPT !.resume = TRUE, !.resumeTimers = @ + 1]

\* a variant of pauseHighlightUntilIdle that arms a new resume timer without
\* clearing the pending one
pauseHighlightUntilIdle_NoCancel(hs) ==
    LET cleared == ClearQueues(ClearWorkerTimer(hs))
    IN [cleared EXCEPT !.resume = TRUE, !.resumeTimers = @ + 1]

\* pauseHighlightUntilIdle (diff.ts 854-870): the timer is re-armed
pauseHighlightUntilIdle(hs) ==
    LET cleared == ClearResumeTimer(ClearQueues(ClearWorkerTimer(hs)))
    IN [cleared EXCEPT !.resume = TRUE, !.resumeTimers = @ + 1]

\* close's part on the scheduler (diff.ts 686-696)
CloseScheduler(hs) == ClearQueues(ClearResumeTimer(ClearWorkerTimer(hs)))

(***************************************************************************)
(* Construction (diff.ts 538-571)                                          *)
(***************************************************************************)
\* the footer extension as the factory leaves it (custom-footer.ts 231-238),
\* in a repository whose branch the host reports as main
FooterIdle ==
    /\ gitBranch = <<<<"m", "a", "i", "n">>>>
    /\ footerInstalled = FALSE
    /\ currentBranch = <<>>
    /\ prUrl = <<>>
    /\ prBranch = <<>>
    /\ lookups = {}
    /\ lookupsStarted = 0
    /\ footerFrame = <<>>

\* no todo list modal is shown (src/unnamed/part_000 190-207)
TodoIdle ==
    /\ modalOpen = FALSE
    /\ modalTodos = <<>>
    /\ selected = 0
    /\ grabbedIndex = <<>>
    /\ grabSnapshot = <<>>
    /\ pendingDeleteIndex = <<>>
    /\ pendingDeleteAt = "Never"
    /\ statusLine = ""
    /\ modalMode = "browse"
    /\ addText = <<>>
    /\ addCursor = 0
    /\ editIndex = <<>>
    /\ todoFile = <<>>
    /\ modalThrew = FALSE

NoCall ==
    /\ callArgs = <<>>
    /\ callResult = <<>>

ParserIdle ==
    /\ input = <<>>
    /\ files = <<>>
    /\ currentFile = <<>>
    /\ currentHunk = FALSE
    /\ currentOldLine = 0
    /\ currentNewLine = 0
    /\ parseDone = FALSE

InitViewer ==
    /\ snapshot \in InitialSnapshots
    /\ fileIndex = 0
    /\ scrollOffset = 0
    /\ refreshing = FALSE
    /\ statusMessage = ""
    /\ closed = FALSE
    /\ composingMode = Null
    /\ composeText = <<>>
    /\ composeCursor = 0
    /\ sendingMessage = FALSE
    /\ splitRowsCache = EmptyMap
    /\ bodyLayoutCache = EmptyMap
    /\ sidebarDataCache = <<>>
    /\ highlightGeneration = 0
    /\ highlightCache = EmptyMap
    /\ LET hs == rebuildHighlightQueue(
                     [high |-> <<>>, low |-> <<>>, timer |-> FALSE, resume |-> FALSE,
                      workerTimers |-> 0, resumeTimers |-> 0, total |-> 0, done |-> 0],
                     snapshot, 0, 0, EmptyMap, FALSE)
       IN /\ highlightQueueHigh = hs.high
          /\ highlightQueueLow = hs.low
          /\ highlightTimer = hs.timer
          /\ highlightResumeTimer = hs.resume
          /\ workerTimers = hs.workerTimers
          /\ resumeTimers = hs.resumeTimers
          /\ highlightTotal = hs.total
          /\ highlightDone = hs.done
    /\ refreshCalls = 0
    /\ sendCalls = <<>>
    /\ renderRequested = FALSE

Init == InitViewer /\ ParserIdle /\ NoCall /\ FooterIdle /\ TodoIdle

(***************************************************************************)
(* Browsing keys (diff.ts 573-597)                                         *)
(***************************************************************************)
Browsing == composingMode = Null

\* scroll (diff.ts 872-876)
ScrollTo(offset, delta) == Max(0, offset + delta)

\* the deltas handleInput passes to scroll, for a terminal of `rows` rows
ScrollDeltas(rows) ==
    LET fast == Max(FastStepMin, (viewportHeight(rows) * 6) \div 10)
        page == Max(PageStepMin, (viewportHeight(rows) * 7) \div 10)
    IN {-1, 1, -fast, fast, -page, page, -WheelStep, WheelStep}

Scroll(delta) ==
    /\ Browsing
    /\ delta # 0
    /\ scrollOffset + delta <= MaxScroll
    /\ scrollOffset' = ScrollTo(scrollOffset, delta)
    /\ renderRequested' = TRUE
    /\ UNCHANGED <<snapshot, fileIndex, refreshing, statusMessage, closed, composingMode,
                   composeText, composeCursor, sendingMessage, splitRowsCache,
                   bodyLayoutCache, sidebarDataCache, highlightGeneration, highlightCache,
                   highlightQueueHigh, highlightQueueLow, highlightTimer,
                   highlightResumeTimer, highlightTotal, highlightDone, workerTimers,
                   resumeTimers, refreshCalls, sendCalls, parserVars, callVars, footerVars, todoVars>>

\* variant: no wrap-around, the step stops at either end of the order
StepTarget_NoWrap(order, orderIndex, index, delta) ==
    LET current == IF index \in DOMAIN orderIndex THEN orderIndex[index] ELSE -1
        start == IF current >= 0 THEN current ELSE 0
    IN order[Max(0, Min(Len(order) - 1, start + delta)) + 1]

\* the index stepFile moves to (diff.ts 832-840)
StepTarget(order, orderIndex, index, delta) ==
    LET current == IF index \in DOMAIN orderIndex THEN orderIndex[index] ELSE -1
        start == IF current >= 0 THEN current ELSE 0
        next == IF start + delta < 0 THEN Len(order) - 1
                ELSE IF start + delta >= Len(order) THEN 0
                ELSE start + delta
    IN order[next + 1]

\* stepFile (diff.ts 830-844), with the sidebar data it computes and caches
StepFile(delta) ==
    /\ Browsing
    /\ FileCount(snapshot) > 0
    /\ LET data == sidebarData(sidebarDataCache, snapshot)
       IN /\ Len(data.fileOrder) > 0
          /\ sidebarDataCache' = <<data>>
          /\ fileIndex' = StepTarget(data.fileOrder, data.fileOrderIndex, fileIndex, delta)
    /\ scrollOffset' = 0
    /\ SetScheduler(pauseHighlightUntilIdle(Scheduler))
    /\ renderRequested' = TRUE
    /\ UNCHANGED <<snapshot, refreshing, statusMessage, closed, composingMode,
                   composeText, composeCursor, sendingMessage, splitRowsCache,
                   bodyLayoutCache, highlightGeneration, highlightCache,
                   refreshCalls, sendCalls, parserVars, callVars, footerVars, todoVars>>

\* close (diff.ts 683-698)
Close ==
    /\ Browsing
    /\ ~closed
    /\ closed' = TRUE
    /\ SetScheduler(CloseScheduler(Scheduler))
    /\ UNCHANGED <<snapshot, fileIndex, scrollOffset, refreshing, statusMessage,
                   composingMode, composeText, composeCursor, sendingMessage,
                   splitRowsCache, bodyLayoutCache, sidebarDataCache,
                   highlightGeneration, highlightCache, refreshCalls, sendCalls,
                   renderRequested, parserVars, callVars, footerVars, todoVars>>

(***************************************************************************)
(* refresh (diff.ts 893-919): the part before the await, and the two       *)
(* continuations of onRefresh()                                            *)
(***************************************************************************)
RefreshStart ==
    /\ Browsing
    /\ ~refreshing /\ ~closed
    /\ refreshing' = TRUE
    /\ statusMessage' = "Refreshing diff..."
    /\ renderRequested' = TRUE
    /\ refreshCalls' = refreshCalls + 1
    /\ UNCHANGED <<snapshot, fileIndex, scrollOffset, closed, composingMode, composeText,
                   composeCursor, sendingMessage, splitRowsCache, bodyLayoutCache,
                   sidebarDataCache, highlightGeneration, highlightCache,
                   highlightQueueHigh, highlightQueueLow, highlightTimer,
                   highlightResumeTimer, highlightTotal, highlightDone, workerTimers,
                   resumeTimers, sendCalls, parserVars, callVars, footerVars, todoVars>>

\* variant: the index is clamped to the number of files
ClampFileIndex_ToCount(index, snap) ==
    IF index >= FileCount(snap) THEN FileCount(snap) ELSE index

\* a variant of the clamp of diff.ts 903 that keeps the index
ClampFileIndex_None(index, snap) == index

\* diff.ts 903
ClampFileIndex(index, snap) ==
    IF index >= FileCount(snap) THEN Max(0, FileCount(snap) - 1) ELSE index

\* variant: the sidebar data survives the snapshot's replacement
RefreshResolve_KeepsSidebar(snap) ==
    /\ refreshCalls > 0
    /\ refreshCalls' = refreshCalls - 1
    /\ IF closed
       THEN UNCHANGED <<snapshot, fileIndex, scrollOffset, refreshing, statusMessage,
                           splitRowsCache, bodyLayoutCache, sidebarDataCache,
                           highlightGeneration, highlightCache, highlightQueueHigh,
                           highlightQueueLow, highlightTimer, highlightResumeTimer,
                           highlightTotal, highlightDone, workerTimers, resumeTimers,
                           renderRequested>>
       ELSE /\ highlightGeneration < MaxGen
            /\ snapshot' = snap
            /\ fileIndex' = ClampFileIndex(fileIndex, snap)
            /\ scrollOffset' = 0
            /\ splitRowsCache' = EmptyMap
            /\ bodyLayoutCache' = EmptyMap
            /\ UNCHANGED sidebarDataCache
            /\ highlightGeneration' = highlightGeneration + 1
            /\ highlightCache' = EmptyMap
            /\ SetScheduler(rebuildHighlightQueue(Scheduler, snap, fileIndex',
                                                  highlightGeneration', EmptyMap, closed))
            /\ statusMessage' = "Refreshed at"
            /\ refreshing' = FALSE
            /\ renderRequested' = TRUE
    /\ UNCHANGED <<closed, composingMode, composeText, composeCursor, sendingMessage,
                   sendCalls, parserVars, callVars, footerVars, todoVars>>

\* onRefresh() resolved with snap (diff.ts 901-911, 917-918)
RefreshResolve(snap) ==
    /\ refreshCalls > 0
    /\ refreshCalls' = refreshCalls - 1
    /\ IF closed
       THEN UNCHANGED <<snapshot, fileIndex, scrollOffset, refreshing, statusMessage,
                           splitRowsCache, bodyLayoutCache, sidebarDataCache,
                           highlightGeneration, highlightCache, highlightQueueHigh,
                           highlightQueueLow, highlightTimer, highlightResumeTimer,
                           highlightTotal, highlightDone, workerTimers, resumeTimers,
                           renderRequested>>
       ELSE /\ highlightGeneration < MaxGen
            /\ snapshot' = snap
            /\ fileIndex' = ClampFileIndex(fileIndex, snap)
            /\ scrollOffset' = 0
            /\ splitRowsCache' = EmptyMap
            /\ bodyLayoutCache' = EmptyMap
            /\ sidebarDataCache' = <<>>
            /\ highlightGeneration' = highlightGeneration + 1
            /\ highlightCache' = EmptyMap
            /\ SetScheduler(rebuildHighlightQueue(Scheduler, snap, fileIndex',
                                                  highlightGeneration', EmptyMap, closed))
            /\ statusMessage' = "Refreshed at"
            /\ refreshing' = FALSE
            /\ renderRequested' = TRUE
    /\ UNCHANGED <<closed, composingMode, composeText, composeCursor, sendingMessage,
                   sendCalls, parserVars, callVars, footerVars, todoVars>>

\* a variant of the rejected refresh that also scrolls back to the top
RefreshReject_ResetsScroll ==
    /\ refreshCalls > 0
    /\ refreshCalls' = refreshCalls - 1
    /\ statusMessage' = "Refresh failed"
    /\ refreshing' = FALSE
    /\ renderRequested' = TRUE
    /\ scrollOffset' = 0
    /\ UNCHANGED <<snapshot, fileIndex, closed, composingMode, composeText,
                   composeCursor, sendingMessage, splitRowsCache, bodyLayoutCache,
                   sidebarDataCache, highlightGeneration, highlightCache,
                   highlightQueueHigh, highlightQueueLow, highlightTimer,
                   highlightResumeTimer, highlightTotal, highlightDone, workerTimers,
                   resumeTimers, sendCalls, parserVars, callVars, footerVars, todoVars>>

\* onRefresh() rejected (diff.ts 912-918)
RefreshReject ==
    /\ refreshCalls > 0
    /\ refreshCalls' = refreshCalls - 1
    /\ statusMessage' = "Refresh failed"
    /\ refreshing' = FALSE
    /\ renderRequested' = TRUE
    /\ UNCHANGED <<snapshot, fileIndex, scrollOffset, closed, composingMode, composeText,
                   composeCursor, sendingMessage, splitRowsCache, bodyLayoutCache,
                   sidebarDataCache, highlightGeneration, highlightCache,
                   highlightQueueHigh, highlightQueueLow, highlightTimer,
                   highlightResumeTimer, highlightTotal, highlightDone, workerTimers,
                   resumeTimers, sendCalls, parserVars, callVars, footerVars, todoVars>>

\* a variant of invalidate that leaves the highlight cache as it is
Invalidate_KeepsCache ==
    /\ highlightGeneration < MaxGen
    /\ highlightGeneration' = highlightGeneration + 1
    /\ bodyLayoutCache' = EmptyMap
    /\ sidebarDataCache' = <<>>
    /\ SetScheduler(rebuildHighlightQueue(Scheduler, snapshot, fileIndex,
                                          highlightGeneration', highlightCache, closed))
    /\ renderRequested' = TRUE
    /\ UNCHANGED <<snapshot, fileIndex, scrollOffset, refreshing, statusMessage, closed,
                   composingMode, composeText, composeCursor, sendingMessage,
                   splitRowsCache, highlightCache, refreshCalls, sendCalls, parserVars, callVars, footerVars, todoVars>>

(***************************************************************************)
(* invalidate (diff.ts 660-667)                                            *)
(***************************************************************************)
Invalidate ==
    /\ highlightGeneration < MaxGen
    /\ highlightGeneration' = highlightGeneration + 1
    /\ highlightCache' = EmptyMap
    /\ bodyLayoutCache' = EmptyMap
    /\ sidebarDataCache' = <<>>
    /\ SetScheduler(rebuildHighlightQueue(Scheduler, snapshot, fileIndex,
                                          highlightGeneration', EmptyMap, closed))
    /\ renderRequested' = TRUE
    /\ UNCHANGED <<snapshot, fileIndex, scrollOffset, refreshing, statusMessage, closed,
                   composingMode, composeText, composeCursor, sendingMessage,
                   splitRowsCache, refreshCalls, sendCalls, parserVars, callVars, footerVars, todoVars>>

(***************************************************************************)
(* render (diff.ts 599-658, 921-935, 1121-1142): what it writes            *)
(***************************************************************************)
getSplitRows(cache, index, file) ==
    IF index \in DOMAIN cache THEN cache[index] ELSE toSplitRows(file)

getBodyLayout(layouts, rowsCache, index, file, width) ==
    IF <<index, width>> \in DOMAIN layouts THEN layouts[<<index, width>>]
    ELSE BuildBodyLayout(getSplitRows(rowsCache, index, file), file, width)

\* variant: a file that has rows is laid out even when it is marked binary
BodyKind_RowsBeforeBinary(snap, index, rowsCache) ==
    IF FileCount(snap) = 0 THEN "empty"
    ELSE IF ~ValidIndex(snap, index) THEN "missing"
    ELSE IF getSplitRows(rowsCache, index, FileAt(snap, index)) # <<>> THEN "rows"
    ELSE IF FileAt(snap, index).isBinary THEN "binary"
    ELSE "norows"

\* which body currentBodyViewport / renderFileViewport shows
BodyKind(snap, index, rowsCache) ==
    IF FileCount(snap) = 0 THEN "empty"
    ELSE IF ~ValidIndex(snap, index) THEN "missing"
    ELSE IF FileAt(snap, index).isBinary THEN "binary"
    ELSE IF getSplitRows(rowsCache, index, FileAt(snap, index)) = <<>> THEN "norows"
    ELSE "rows"

\* the scrollable extent of that body
BodyTotalLines(snap, index, rowsCache, layouts, width) ==
    LET kind == BodyKind(snap, index, rowsCache)
    IN IF kind = "empty" THEN 2
       ELSE IF kind \in {"binary", "norows"} THEN 1
       ELSE IF kind = "missing" THEN 0
       ELSE getBodyLayout(layouts, rowsCache, index, FileAt(snap, index), width).totalLines

RenderMaxOffset(snap, index, rowsCache, layouts, width, viewport) ==
    Max(0, BodyTotalLines(snap, index, rowsCache, layouts, width) - viewport)

\* a variant of render's clamp without the upper bound
ClampScroll_NoUpper(offset, maxOffset) == Max(0, offset)

\* this.scrollOffset = Math.max(0, Math.min(this.scrollOffset, maxOffset))
ClampScroll(offset, maxOffset) == Max(0, Min(offset, maxOffset))

Render(width, rows) ==
    LET viewport == viewportHeight(rows)
        contentWidth == BodyWidth(width)
        kind == BodyKind(snapshot, fileIndex, splitRowsCache)
        file == FileAt(snapshot, fileIndex)
    IN /\ scrollOffset' =
            IF kind = "missing" THEN scrollOffset
            ELSE ClampScroll(scrollOffset,
                             RenderMaxOffset(snapshot, fileIndex, splitRowsCache,
                                             bodyLayoutCache, contentWidth, viewport))
       /\ splitRowsCache' =
            IF kind \in {"norows", "rows"}
            THEN MapSet(splitRowsCache, fileIndex, getSplitRows(splitRowsCache, fileIndex, file))
            ELSE splitRowsCache
       /\ bodyLayoutCache' =
            IF kind = "rows"
            THEN MapSet(bodyLayoutCache, <<fileIndex, contentWidth>>,
                        getBodyLayout(bodyLayoutCache, splitRowsCache, fileIndex, file, contentWidth))
            ELSE bodyLayoutCache
       /\ sidebarDataCache' =
            IF FileCount(snapshot) = 0 THEN sidebarDataCache
            ELSE <<sidebarData(sidebarDataCache, snapshot)>>
       /\ renderRequested' = FALSE
       /\ UNCHANGED <<snapshot, fileIndex, refreshing, statusMessage, closed, composingMode,
                      composeText, composeCursor, sendingMessage, highlightGeneration,
                      highlightCache, highlightQueueHigh, highlightQueueLow, highlightTimer,
                      highlightResumeTimer, highlightTotal, highlightDone, workerTimers,
                      resumeTimers, refreshCalls, sendCalls, parserVars, callVars, footerVars, todoVars>>

\* variant: the footer shows the offset as it was when render was called
RenderFooter_BeforeClamp(width, rows) ==
    LET maxOffset ==
            IF BodyKind(snapshot, fileIndex, splitRowsCache) = "missing" THEN 0
            ELSE RenderMaxOffset(snapshot, fileIndex, splitRowsCache, bodyLayoutCache,
                                 BodyWidth(width), viewportHeight(rows))
    IN  [scrollOffset |-> scrollOffset, maxOffset |-> maxOffset]

\* footerRight of the frame render(width) returns: `${this.scrollOffset}/${maxOffset}`,
\* read after currentBodyViewport has run (diff.ts 641-642, 653)
RenderFooter(width, rows) ==
    LET kind == BodyKind(snapshot, fileIndex, splitRowsCache)
        maxOffset ==
            IF kind = "missing" THEN 0
            ELSE RenderMaxOffset(snapshot, fileIndex, splitRowsCache, bodyLayoutCache,
                                 BodyWidth(width), viewportHeight(rows))
    IN  [scrollOffset |-> IF kind = "missing" THEN scrollOffset
                          ELSE ClampScroll(scrollOffset, maxOffset),
         maxOffset |-> maxOffset]

(***************************************************************************)
(* The lines render returns (diff.ts 599-658), by their visible widths.    *)
(* Of the lines whose text depends on the snapshot (title, status, compose *)
(* text, file header, footer) only the fact that they are cut to safeWidth *)
(* matters here, and they are left out.                                   *)
(***************************************************************************)
HintWidth == 163         \* visibleWidth of the key hints
WarningWidth == 47       \* visibleWidth of the too-narrow warning
ComposeHintWidth == 64   \* visibleWidth of the compose hints
WideEnough == 120

\* visibleWidth(truncateToWidth(text, width)) for a text of this visible width
truncateToWidth(textWidth, width) == Min(textWidth, width)

\* visibleWidth(padToWidth(text, width)) for a text of this visible width
padToWidth(textWidth, width) == Max(truncateToWidth(textWidth, width), width)

RenderedLineWidths(width, rows) ==
    LET safeWidth == Max(MinSafeWidth, width)
        side == sidebarWidth(safeWidth)
        contentWidth == Max(MinContentWidth, safeWidth - side - SeparatorWidth)
        lines ==
            <<truncateToWidth(HintWidth, safeWidth)>>
            \o (IF safeWidth < WideEnough
                THEN <<truncateToWidth(WarningWidth, safeWidth)>> ELSE <<>>)
            \o (IF composingMode # Null
                THEN <<truncateToWidth(ComposeHintWidth, safeWidth)>> ELSE <<>>)
            \o <<truncateToWidth(Max(1, safeWidth), safeWidth)>>
            \o [i \in 1..viewportHeight(rows) |->
                    padToWidth(0, side) + SeparatorWidth + padToWidth(0, contentWidth)]
    IN  [i \in 1..Len(lines) |-> truncateToWidth(lines[i], safeWidth)]

\* widths a terminal can ask render for
RequestedWidths == {39, 40, 120}

(***************************************************************************)
(* Compose mode (diff.ts 700-818)                                          *)
(***************************************************************************)
\* what a key press can insert: a letter, a blank, a control character
TypedData == {<<"a">>, <<" ">>, <<"\t">>}

\* characters of the input, and the code unit of each; the two named by their
\* code points are DELETE and NEXT LINE, a control character of the C1 range
DelChar == "U+007F"
NelChar == "U+0085"

Chars == {"a", " ", "\t", DelChar, NelChar}

CodePoint(c) ==
    CASE c = "\t" -> 9
      [] c = " " -> 32
      [] c = "a" -> 97
      [] c = DelChar -> 127
      [] c = NelChar -> 133

\* the characters insertComposeText drops: not (char >= " " && char !== "\u007f")
ControlChars == {c \in Chars : ~(CodePoint(c) >= 32 /\ CodePoint(c) # 127)}

ComposeUnchanged ==
    UNCHANGED <<snapshot, fileIndex, scrollOffset, refreshing, closed, splitRowsCache,
                bodyLayoutCache, sidebarDataCache, highlightGeneration, highlightCache,
                highlightQueueHigh, highlightQueueLow, highlightTimer,
                highlightResumeTimer, highlightTotal, highlightDone, workerTimers,
                resumeTimers, refreshCalls, parserVars, callVars, footerVars, todoVars>>

\* startCompose (diff.ts 700-707)
StartCompose ==
    /\ Browsing
    /\ ~closed /\ ~sendingMessage
    /\ composingMode' = "steer"
    /\ composeText' = <<>>
    /\ composeCursor' = 0
    /\ statusMessage' = "Compose message"
    /\ renderRequested' = TRUE
    /\ UNCHANGED <<sendingMessage, sendCalls>>
    /\ ComposeUnchanged

\* variant: cancelling goes back to the top of the file
CancelCompose_ResetsScroll ==
    /\ ~Browsing
    /\ composingMode' = Null
    /\ composeText' = <<>>
    /\ composeCursor' = 0
    /\ statusMessage' = "Compose cancelled"
    /\ renderRequested' = TRUE
    /\ scrollOffset' = 0
    /\ UNCHANGED <<sendingMessage, sendCalls, snapshot, fileIndex, refreshing, closed,
                   splitRowsCache, bodyLayoutCache, sidebarDataCache, highlightGeneration,
                   highlightCache, highlightQueueHigh, highlightQueueLow, highlightTimer,
                   highlightResumeTimer, highlightTotal, highlightDone, workerTimers,
                   resumeTimers, refreshCalls, parserVars, callVars, footerVars, todoVars>>

\* cancelCompose (diff.ts 709-716)
CancelCompose ==
    /\ ~Browsing
    /\ composingMode' = Null
    /\ composeText' = <<>>
    /\ composeCursor' = 0
    /\ statusMessage' = "Compose cancelled"
    /\ renderRequested' = TRUE
    /\ UNCHANGED <<sendingMessage, sendCalls>>
    /\ ComposeUnchanged

\* text.trim() is empty
Blank(text) == \A i \in 1..Len(text) : text[i] = " "

\* variant: a submit is accepted while a send is in flight
SubmitCompose_WhileSending(mode) ==
    /\ ~Browsing
    /\ Len(sendCalls) < 2
    /\ IF Blank(composeText)
       THEN /\ statusMessage' = "Message empty"
            /\ UNCHANGED <<sendingMessage, sendCalls>>
       ELSE /\ sendingMessage' = TRUE
            /\ statusMessage' = IF mode = "steer" THEN "Sending steering message..."
                                ELSE "Queueing follow-up message..."
            /\ sendCalls' = Append(sendCalls, mode)
    /\ renderRequested' = TRUE
    /\ UNCHANGED <<composingMode, composeText, composeCursor>>
    /\ ComposeUnchanged

\* variant: the text is sent without looking at what is left after trimming
SubmitCompose_Untrimmed(mode) ==
    /\ ~Browsing
    /\ ~sendingMessage
    /\ sendingMessage' = TRUE
    /\ statusMessage' = IF mode = "steer" THEN "Sending steering message..."
                        ELSE "Queueing follow-up message..."
    /\ sendCalls' = Append(sendCalls, mode)
    /\ renderRequested' = TRUE
    /\ UNCHANGED <<composingMode, composeText, composeCursor>>
    /\ ComposeUnchanged

\* submitCompose up to its await (diff.ts 790-804)
SubmitCompose(mode) ==
    /\ ~Browsing
    /\ ~sendingMessage
    /\ IF Blank(composeText)
       THEN /\ statusMessage' = "Message empty"
            /\ UNCHANGED <<sendingMessage, sendCalls>>
       ELSE /\ sendingMessage' = TRUE
            /\ statusMessage' = IF mode = "steer" THEN "Sending steering message..."
                                ELSE "Queueing follow-up message..."
            /\ sendCalls' = Append(sendCalls, mode)
    /\ renderRequested' = TRUE
    /\ UNCHANGED <<composingMode, composeText, composeCursor>>
    /\ ComposeUnchanged

\* the editing keys of handleComposeInput (diff.ts 735-774)
EditKey(key) ==
    /\ ~Browsing
    /\ \/ /\ key = "backspace"
          /\ IF composeCursor > 0
             THEN /\ composeText' = SubSeq(composeText, 1, composeCursor - 1)
                                    \o SubSeq(composeText, composeCursor + 1, Len(composeText))
                  /\ composeCursor' = composeCursor - 1
             ELSE UNCHANGED <<composeText, composeCursor>>
       \/ /\ key = "delete"
          /\ composeText' = IF composeCursor < Len(composeText)
                            THEN SubSeq(composeText, 1, composeCursor)
                                 \o SubSeq(composeText, composeCursor + 2, Len(composeText))
                            ELSE composeText
          /\ UNCHANGED composeCursor
       \/ /\ key = "left"
          /\ composeCursor' = Max(0, composeCursor - 1)
          /\ UNCHANGED composeText
       \/ /\ key = "right"
          /\ composeCursor' = Min(Len(composeText), composeCursor + 1)
          /\ UNCHANGED composeText
       \/ /\ key = "home"
          /\ composeCursor' = 0
          /\ UNCHANGED composeText
       \/ /\ key = "end"
          /\ composeCursor' = Len(composeText)
          /\ UNCHANGED composeText
    /\ renderRequested' = TRUE
    /\ UNCHANGED <<composingMode, statusMessage, sendingMessage, sendCalls>>
    /\ ComposeUnchanged

EditKeys == {"backspace", "delete", "left", "right", "home", "end"}

\* insertComposeText (diff.ts 782-788), called with data that does not start with ESC
TypeText(data) ==
    /\ ~Browsing
    /\ LET sanitized == SelectSeq(data, LAMBDA c : c \notin ControlChars)
       IN /\ Len(composeText) + Len(sanitized) <= MaxComposeLen
          /\ composeText' = SubSeq(composeText, 1, composeCursor) \o sanitized
                            \o SubSeq(composeText, composeCursor + 1, Len(composeText))
          /\ composeCursor' = composeCursor + Len(sanitized)
    /\ renderRequested' = TRUE
    /\ UNCHANGED <<composingMode, statusMessage, sendingMessage, sendCalls>>
    /\ ComposeUnchanged

\* the status queueFromDiffViewer returns (diff.ts 1471-1483)
SendStatuses(mode) ==
    {"Sent message (agent idle)",
     IF mode = "steer" THEN "Queued steering message" ELSE "Queued follow-up message"}

\* onQueueMessage() resolved (diff.ts 804-809, 814-817)
SendResolve(status) ==
    /\ sendCalls # <<>>
    /\ status \in SendStatuses(Head(sendCalls))
    /\ sendCalls' = Tail(sendCalls)
    /\ sendingMessage' = FALSE
    /\ IF closed
       THEN UNCHANGED <<composingMode, composeText, composeCursor, statusMessage,
                           renderRequested>>
       ELSE /\ composingMode' = Null
            /\ composeText' = <<>>
            /\ composeCursor' = 0
            /\ statusMessage' = status
            /\ renderRequested' = TRUE
    /\ ComposeUnchanged

\* variant: a failed send ends compose mode as a successful one does
SendReject_LeavesCompose ==
    /\ sendCalls # <<>>
    /\ sendCalls' = Tail(sendCalls)
    /\ sendingMessage' = FALSE
    /\ IF closed
       THEN UNCHANGED <<composingMode, composeText, composeCursor, statusMessage,
                           renderRequested>>
       ELSE /\ composingMode' = Null
            /\ composeText' = <<>>
            /\ composeCursor' = 0
            /\ statusMessage' = "Message failed"
            /\ renderRequested' = TRUE
    /\ ComposeUnchanged

\* onQueueMessage() rejected (diff.ts 810-817)
SendReject ==
    /\ sendCalls # <<>>
    /\ sendCalls' = Tail(sendCalls)
    /\ sendingMessage' = FALSE
    /\ IF closed
       THEN UNCHANGED <<statusMessage, renderRequested>>
       ELSE /\ statusMessage' = "Message failed"
            /\ renderRequested' = TRUE
    /\ UNCHANGED <<composingMode, composeText, composeCursor>>
    /\ ComposeUnchanged

(***************************************************************************)
(* The timer callbacks (diff.ts 864-869, 1398-1432)                        *)
(***************************************************************************)
\* what the tokenizer's result is stored as: out[0], or the text when it throws
Highlighted(task) ==
    IF TokenizerThrows(task.text) THEN <<"plain", task.text>> ELSE <<"styled", task.text>>

\* a variant of the worker's test that does not compare generations
TaskIsLive_AnyGeneration(task, gen, cache) == task.cacheKey \notin DOMAIN cache

\* the task is written (diff.ts 1412-1413)
TaskIsLive(task, gen, cache) ==
    task.generation = gen /\ task.cacheKey \notin DOMAIN cache

\* variant: a tokenizer failure ends the batch, its task stored nowhere
RECURSIVE ProcessTasks_StopsAtThrow(_, _, _)
ProcessTasks_StopsAtThrow(n, gen, st) ==
    IF n = 0 \/ (st.high = <<>> /\ st.low = <<>>) THEN st
    ELSE LET task == IF st.high # <<>> THEN Head(st.high) ELSE Head(st.low)
             popped == IF st.high # <<>> THEN [st EXCEPT !.high = Tail(@)]
                       ELSE [st EXCEPT !.low = Tail(@)]
         IN IF TaskIsLive(task, gen, st.cache) /\ TokenizerThrows(task.text)
            THEN popped
            ELSE ProcessTasks_StopsAtThrow(n - 1, gen,
                    IF TaskIsLive(task, gen, st.cache)
                    THEN [popped EXCEPT !.cache = MapSet(@, task.cacheKey, Highlighted(task)),
                                        !.done = @ + 1, !.changed = TRUE,
                                        !.tokenized = Append(@, task)]
                    ELSE popped)

\* variant: the low queue is served before the high queue
RECURSIVE ProcessTasks_LowFirst(_, _, _)
ProcessTasks_LowFirst(n, gen, st) ==
    IF n = 0 \/ (st.high = <<>> /\ st.low = <<>>) THEN st
    ELSE LET task == IF st.low # <<>> THEN Head(st.low) ELSE Head(st.high)
             popped == IF st.low # <<>> THEN [st EXCEPT !.low = Tail(@)]
                       ELSE [st EXCEPT !.high = Tail(@)]
         IN ProcessTasks_LowFirst(n - 1, gen,
                IF TaskIsLive(task, gen, st.cache)
                THEN [popped EXCEPT !.cache = MapSet(@, task.cacheKey, Highlighted(task)),
                                    !.done = @ + 1, !.changed = TRUE,
                                    !.tokenized = Append(@, task)]
                ELSE popped)

\* the loop of processHighlightChunk run for n tasks (diff.ts 1406-1426)
RECURSIVE ProcessTasks(_, _, _)
ProcessTasks(n, gen, st) ==
    IF n = 0 \/ (st.high = <<>> /\ st.low = <<>>) THEN st
    ELSE LET task == IF st.high # <<>> THEN Head(st.high) ELSE Head(st.low)
             popped == IF st.high # <<>> THEN [st EXCEPT !.high = Tail(@)]
                       ELSE [st EXCEPT !.low = Tail(@)]
         IN ProcessTasks(n - 1, gen,
                IF TaskIsLive(task, gen, st.cache)
                THEN [popped EXCEPT !.cache = MapSet(@, task.cacheKey, Highlighted(task)),
                                    !.done = @ + 1, !.changed = TRUE,
                                    !.tokenized = Append(@, task)]
                ELSE popped)

\* processHighlightChunk; the 8 ms budget lets the loop run for n tasks
ProcessHighlightChunk(n) ==
    /\ workerTimers > 0
    /\ n >= 1 /\ n <= ChunkTaskLimit
    /\ IF closed
       THEN /\ highlightTimer' = FALSE
            /\ workerTimers' = workerTimers - 1
            /\ UNCHANGED <<highlightCache, highlightQueueHigh, highlightQueueLow,
                           highlightDone, renderRequested>>
       ELSE LET st == ProcessTasks(n, highlightGeneration,
                          [high |-> highlightQueueHigh, low |-> highlightQueueLow,
                           cache |-> highlightCache, done |-> highlightDone,
                           changed |-> FALSE, tokenized |-> <<>>])
                more == st.high # <<>> \/ st.low # <<>>
            IN /\ n <= Len(highlightQueueHigh) + Len(highlightQueueLow)
               /\ highlightCache' = st.cache
               /\ highlightQueueHigh' = st.high
               /\ highlightQueueLow' = st.low
               /\ highlightDone' = st.done
               /\ highlightTimer' = more
               /\ workerTimers' = workerTimers - 1 + (IF more THEN 1 ELSE 0)
               /\ renderRequested' = (renderRequested \/ st.changed)
    /\ UNCHANGED <<snapshot, fileIndex, scrollOffset, refreshing, statusMessage, closed,
                   composingMode, composeText, composeCursor, sendingMessage,
                   splitRowsCache, bodyLayoutCache, sidebarDataCache, highlightGeneration,
                   highlightResumeTimer, highlightTotal, resumeTimers, refreshCalls,
                   sendCalls, parserVars, callVars, footerVars, todoVars>>

\* the callback armed by pauseHighlightUntilIdle (diff.ts 864-869)
ResumeHighlight ==
    /\ resumeTimers > 0
    /\ LET fired == [Scheduler EXCEPT !.resume = FALSE, !.resumeTimers = @ - 1]
       IN IF closed
          THEN /\ SetScheduler(fired)
               /\ UNCHANGED renderRequested
          ELSE /\ SetScheduler(rebuildHighlightQueue(fired, snapshot, fileIndex,
                                                     highlightGeneration, highlightCache,
                                                     closed))
               /\ renderRequested' = TRUE
    /\ UNCHANGED <<snapshot, fileIndex, scrollOffset, refreshing, statusMessage, closed,
                   composingMode, composeText, composeCursor, sendingMessage,
                   splitRowsCache, bodyLayoutCache, sidebarDataCache, highlightGeneration,
                   highlightCache, refreshCalls, sendCalls, parserVars, callVars, footerVars, todoVars>>

(***************************************************************************)
(* The viewer                                                              *)
(***************************************************************************)
Next ==
    \/ \E delta \in UNION {ScrollDeltas(rows) : rows \in TermRows} : Scroll(delta)
    \/ \E delta \in {-1, 1} : StepFile(delta)
    \/ Close
    \/ RefreshStart
    \/ \E snap \in SnapshotPool : RefreshResolve(snap)
    \/ RefreshReject
    \/ Invalidate
    \/ \E width \in Widths : \E rows \in TermRows : Render(width, rows)
    \/ StartCompose
    \/ CancelCompose
    \/ \E mode \in {"steer", "followUp"} : SubmitCompose(mode)
    \/ \E key \in EditKeys : EditKey(key)
    \/ \E data \in TypedData : TypeText(data)
    \/ \E status \in SendStatuses("steer") \cup SendStatuses("followUp") : SendResolve(status)
    \/ SendReject
    \/ \E n \in 1..Min(ChunkTaskLimit, Max(1, Len(highlightQueueHigh) + Len(highlightQueueLow))) :
          ProcessHighlightChunk(n)
    \/ ResumeHighlight

Spec == Init /\ [][Next]_vars

(***************************************************************************)
(* Diff text: a line is the sequence of its characters.                    *)
(***************************************************************************)
StartsWith(line, prefix) ==
    Len(line) >= Len(prefix) /\ SubSeq(line, 1, Len(prefix)) = prefix

\* line.slice(n)
Slice(line, n) == SubSeq(line, n + 1, Len(line))

Whitespace == {" ", "\t", "\r"}

RECURSIVE TrimStart(_)
TrimStart(s) == IF s # <<>> /\ Head(s) \in Whitespace THEN TrimStart(Tail(s)) ELSE s

RECURSIVE TrimEnd(_)
TrimEnd(s) ==
    IF s # <<>> /\ s[Len(s)] \in Whitespace THEN TrimEnd(SubSeq(s, 1, Len(s) - 1)) ELSE s

Trim(s) == TrimEnd(TrimStart(s))

DigitChars == {"0", "1", "2", "3", "4", "5", "6", "7", "8", "9"}

DigitValue(c) ==
    CASE c = "0" -> 0 [] c = "1" -> 1 [] c = "2" -> 2 [] c = "3" -> 3 [] c = "4" -> 4
      [] c = "5" -> 5 [] c = "6" -> 6 [] c = "7" -> 7 [] c = "8" -> 8 [] c = "9" -> 9

\* Number.parseInt(digits, 10)
RECURSIVE ParseInt(_)
ParseInt(digits) ==
    IF digits = <<>> THEN 0
    ELSE 10 * ParseInt(SubSeq(digits, 1, Len(digits) - 1)) + DigitValue(digits[Len(digits)])

\* the index after the digits that start at i
RECURSIVE DigitsEnd(_, _)
DigitsEnd(line, i) ==
    IF i <= Len(line) /\ line[i] \in DigitChars THEN DigitsEnd(line, i + 1) ELSE i

\* the index after an optional ",<digits>" at i
CountEnd(line, i) ==
    IF i <= Len(line) /\ line[i] = "," /\ DigitsEnd(line, i + 1) > i + 1
    THEN DigitsEnd(line, i + 1) ELSE i

Lit_HunkOpen == <<"@", "@", " ", "-">>
Lit_Plus == <<" ", "+">>
Lit_HunkClose == <<" ", "@", "@">>

\* line.match(/^@@ -(\d+)(?:,\d+)? \+(\d+)(?:,\d+)? @@(.*)$/): <<old, new>>, or <<>>
HunkMatch(line) ==
    IF ~StartsWith(line, Lit_HunkOpen) THEN <<>>
    ELSE LET oldStart == Len(Lit_HunkOpen) + 1
             oldEnd == DigitsEnd(line, oldStart)
             plusAt == CountEnd(line, oldEnd)
             newStart == plusAt + Len(Lit_Plus)
             newEnd == DigitsEnd(line, newStart)
             closeAt == CountEnd(line, newEnd)
         IN IF /\ oldEnd > oldStart
               /\ StartsWith(Slice(line, plusAt - 1), Lit_Plus)
               /\ newEnd > newStart
               /\ StartsWith(Slice(line, closeAt - 1), Lit_HunkClose)
               /\ \A k \in closeAt..Len(line) : line[k] \notin {"\r", "\n"}
            THEN <<ParseInt(SubSeq(line, oldStart, oldEnd - 1)),
                   ParseInt(SubSeq(line, newStart, newEnd - 1))>>
            ELSE <<>>

Lit_DiffGit == <<"d", "i", "f", "f", " ", "-", "-", "g", "i", "t", " ">>
Lit_DevNull == <<"/", "d", "e", "v", "/", "n", "u", "l", "l">>
Lit_NewFileMode == <<"n", "e", "w", " ", "f", "i", "l", "e", " ", "m", "o", "d", "e", " ">>
Lit_DeletedFileMode == <<"d", "e", "l", "e", "t", "e", "d", " ", "f", "i", "l", "e", " ", "m", "o", "d", "e", " ">>
Lit_OldMode == <<"o", "l", "d", " ", "m", "o", "d", "e", " ">>
Lit_NewMode == <<"n", "e", "w", " ", "m", "o", "d", "e", " ">>
Lit_RenameFrom == <<"r", "e", "n", "a", "m", "e", " ", "f", "r", "o", "m", " ">>
Lit_RenameTo == <<"r", "e", "n", "a", "m", "e", " ", "t", "o", " ">>
Lit_Minus3 == <<"-", "-", "-", " ">>
Lit_Plus3 == <<"+", "+", "+", " ">>
Lit_BinaryFiles == <<"B", "i", "n", "a", "r", "y", " ", "f", "i", "l", "e", "s", " ">>
Lit_GitBinaryPatch == <<"G", "I", "T", " ", "b", "i", "n", "a", "r", "y", " ", "p", "a", "t", "c", "h">>

\* line.match(/^diff --git (.+) (.+)$/): <<first, second>>, or <<>>; the first
\* group is greedy, so the split is at the last blank that leaves both non-empty
DiffGitMatch(line) ==
    LET rest == Slice(line, Len(Lit_DiffGit))
        splits == {k \in 2..Len(rest) - 1 : rest[k] = " "}
    IN IF splits = {} \/ \E k \in 1..Len(rest) : rest[k] \in {"\r", "\n"} THEN <<>>
       ELSE LET k == CHOOSE k \in splits : \A j \in splits : j <= k
            IN <<SubSeq(rest, 1, k - 1), SubSeq(rest, k + 1, Len(rest))>>

\* replaceAll('\\"', '"')
RECURSIVE Unescape(_)
Unescape(s) ==
    IF s = <<>> THEN <<>>
    ELSE IF Len(s) >= 2 /\ s[1] = "\\" /\ s[2] = "\"" THEN <<"\"">> \o Unescape(Slice(s, 2))
    ELSE <<Head(s)>> \o Unescape(Tail(s))

\* cleanDiffPath (diff.ts 69-77)
cleanDiffPath(path) ==
    IF StartsWith(path, <<"a", "/">>) THEN Slice(path, 2)
    ELSE IF StartsWith(path, <<"b", "/">>) THEN Slice(path, 2)
    ELSE IF path = Lit_DevNull THEN <<>>
    ELSE IF path # <<>> /\ Head(path) = "\"" /\ path[Len(path)] = "\""
         THEN Unescape(SubSeq(path, 2, Len(path) - 1))
    ELSE path

\* a || b on strings
OrElse(a, b) == IF a # <<>> THEN a ELSE b

(***************************************************************************)
(* parseDiffFiles (diff.ts 79-212), one line of the text at a time         *)
(***************************************************************************)
NewFile(oldPath, newPath) ==
    [oldPath |-> oldPath, newPath |-> newPath, status |-> "modified", isBinary |-> FALSE,
     oldMode |-> <<>>, newMode |-> <<>>, additions |-> 0, deletions |-> 0, hunks |-> <<>>,
     maxOldLineNumber |-> 0, maxNewLineNumber |-> 0]

ParserState ==
    [files |-> files, currentFile |-> currentFile, currentHunk |-> currentHunk,
     currentOldLine |-> currentOldLine, currentNewLine |-> currentNewLine]

\* variant: the paths decide the status whatever the block's lines set
CommitStatus_AnyStatus(file) ==
    LET afterDeleted == IF file.oldPath # <<>> /\ file.newPath = <<>>
                        THEN "deleted" ELSE file.status
    IN IF file.oldPath = <<>> /\ file.newPath # <<>> THEN "added" ELSE afterDeleted

\* the status a file is committed with (diff.ts 89-92)
CommitStatus(file) ==
    IF file.status # "modified" THEN file.status
    ELSE LET afterDeleted == IF file.oldPath # <<>> /\ file.newPath = <<>>
                             THEN "deleted" ELSE file.status
         IN IF file.oldPath = <<>> /\ file.newPath # <<>> THEN "added" ELSE afterDeleted

\* variant: the hunk of the committed file stays the current hunk
commitCurrent_KeepsHunk(st) ==
    IF st.currentFile = <<>> THEN st
    ELSE [st EXCEPT !.files = Append(@, [st.currentFile[1] EXCEPT
                                            !.status = CommitStatus(st.currentFile[1])]),
                    !.currentFile = <<>>]

\* commitCurrent (diff.ts 87-96)
commitCurrent(st) ==
    IF st.currentFile = <<>> THEN st
    ELSE [st EXCEPT !.files = Append(@, [st.currentFile[1] EXCEPT
                                            !.status = CommitStatus(st.currentFile[1])]),
                    !.currentFile = <<>>,
                    !.currentHunk = FALSE]

\* variant: every line is pushed to the file's first hunk
PushLine_FirstHunk(file, line) ==
    [file EXCEPT !.hunks[1].lines = Append(@, line)]

\* currentHunk.lines.push(line)
PushLine(file, line) ==
    [file EXCEPT !.hunks[Len(file.hunks)].lines = Append(@, line)]

\* the "--- " and "+++ " lines (diff.ts 148-155)
OldPathLine(file, line) ==
    [file EXCEPT !.oldPath = OrElse(cleanDiffPath(Trim(Slice(line, 4))), file.oldPath)]

NewPathLine(file, line) ==
    [file EXCEPT !.newPath = OrElse(cleanDiffPath(Trim(Slice(line, 4))), file.newPath)]

\* a line of a file block that is no "diff --git" line (diff.ts 120-207)
FileLine(st, line) ==
    LET file == st.currentFile[1]
        With(f) == [st EXCEPT !.currentFile = <<f>>]
        hunkMatch == HunkMatch(line)
    IN IF StartsWith(line, Lit_NewFileMode)
       THEN With([file EXCEPT !.status = "added",
                              !.newMode = Trim(Slice(line, Len(Lit_NewFileMode)))])
       ELSE IF StartsWith(line, Lit_DeletedFileMode)
       THEN With([file EXCEPT !.status = "deleted",
                              !.oldMode = Trim(Slice(line, Len(Lit_DeletedFileMode)))])
       ELSE IF StartsWith(line, Lit_OldMode)
       THEN With([file EXCEPT !.oldMode = Trim(Slice(line, Len(Lit_OldMode)))])
       ELSE IF StartsWith(line, Lit_NewMode)
       THEN With([file EXCEPT !.newMode = Trim(Slice(line, Len(Lit_NewMode)))])
       ELSE IF StartsWith(line, Lit_RenameFrom)
       THEN With([file EXCEPT !.status = "renamed",
                              !.oldPath = Trim(Slice(line, Len(Lit_RenameFrom)))])
       ELSE IF StartsWith(line, Lit_RenameTo)
       THEN With([file EXCEPT !.status = "renamed",
                              !.newPath = Trim(Slice(line, Len(Lit_RenameTo)))])
       ELSE IF StartsWith(line, Lit_Minus3) THEN With(OldPathLine(file, line))
       ELSE IF StartsWith(line, Lit_Plus3) THEN With(NewPathLine(file, line))
       ELSE IF StartsWith(line, Lit_BinaryFiles) \/ StartsWith(line, Lit_GitBinaryPatch)
       THEN With([file EXCEPT !.isBinary = TRUE])
       ELSE IF hunkMatch # <<>>
       THEN [st EXCEPT !.currentOldLine = hunkMatch[1],
                       !.currentNewLine = hunkMatch[2],
                       !.currentHunk = TRUE,
                       !.currentFile = <<[file EXCEPT !.hunks =
                                            Append(@, [header |-> line, lines |-> <<>>])]>>]
       ELSE IF ~st.currentHunk THEN st
       ELSE IF StartsWith(line, <<"+">>)
       THEN [st EXCEPT !.currentFile =
                          <<PushLine([file EXCEPT
                                        !.additions = @ + 1,
                                        !.maxNewLineNumber = Max(@, st.currentNewLine)],
                                     DiffLine("add", Slice(line, 1), NoLine, st.currentNewLine))>>,
                       !.currentNewLine = @ + 1]
       ELSE IF StartsWith(line, <<"-">>)
       THEN [st EXCEPT !.currentFile =
                          <<PushLine([file EXCEPT
                                        !.deletions = @ + 1,
                                        !.maxOldLineNumber = Max(@, st.currentOldLine)],
                                     DiffLine("remove", Slice(line, 1), st.currentOldLine, NoLine))>>,
                       !.currentOldLine = @ + 1]
       ELSE IF StartsWith(line, <<" ">>)
       THEN [st EXCEPT !.currentFile =
                          <<PushLine([file EXCEPT
                                        !.maxOldLineNumber = Max(@, st.currentOldLine),
                                        !.maxNewLineNumber = Max(@, st.currentNewLine)],
                                     DiffLine("context", Slice(line, 1),
                                              st.currentOldLine, st.currentNewLine))>>,
                       !.currentOldLine = @ + 1,
                       !.currentNewLine = @ + 1]
       ELSE st

\* the body of the loop over the lines (diff.ts 98-208)
ParseStep(st, line) ==
    IF StartsWith(line, Lit_DiffGit)
    THEN LET match == DiffGitMatch(line)
             committed == commitCurrent(st)
         IN [committed EXCEPT !.currentFile =
                <<NewFile(cleanDiffPath(IF match = <<>> THEN <<>> ELSE match[1]),
                          cleanDiffPath(IF match = <<>> THEN <<>> ELSE match[2]))>>]
    ELSE IF st.currentFile = <<>> THEN st
    ELSE FileLine(st, line)

SetParser(st) ==
    /\ files' = st.files
    /\ currentFile' = st.currentFile
    /\ currentHunk' = st.currentHunk
    /\ currentOldLine' = st.currentOldLine
    /\ currentNewLine' = st.currentNewLine

\* the lines the text is made of
Line_DiffGit == <<"d", "i", "f", "f", " ", "-", "-", "g", "i", "t", " ", "a", "/", "x", " ", "b", "/", "x">>
Line_OldNull == <<"-", "-", "-", " ", "/", "d", "e", "v", "/", "n", "u", "l", "l">>
Line_NewNull == <<"+", "+", "+", " ", "/", "d", "e", "v", "/", "n", "u", "l", "l">>
Line_NewFileMode == <<"n", "e", "w", " ", "f", "i", "l", "e", " ", "m", "o", "d", "e", " ", "1", "0", "0", "6", "4", "4">>
Line_DeletedFileMode == <<"d", "e", "l", "e", "t", "e", "d", " ", "f", "i", "l", "e", " ", "m", "o", "d", "e", " ", "1", "0", "0", "6", "4", "4">>
Line_Hunk == <<"@", "@", " ", "-", "1", ",", "2", " ", "+", "1", ",", "3", " ", "@", "@">>
Line_Add == <<"+", "a">>
Line_Remove == <<"-", "a">>
Line_Context == <<" ", "a">>
Line_RemoveDashes == <<"-", "-", "-", " ", "c">>
Line_AddPluses == <<"+", "+", "+", " ", "c">>

LinePool ==
    {Line_DiffGit, Line_OldNull, Line_NewNull, Line_NewFileMode, Line_DeletedFileMode,
     Line_Hunk, Line_Add, Line_Remove, Line_Context, Line_RemoveDashes, Line_AddPluses}

ViewerIdle == InitViewer

InitParse == ViewerIdle /\ ParserIdle /\ NoCall /\ FooterIdle /\ TodoIdle

\* one iteration of the loop, on the next line of the text
ParseLine(line) ==
    /\ ~parseDone
    /\ Len(input) < MaxLines
    /\ input' = Append(input, line)
    /\ SetParser(ParseStep(ParserState, line))
    /\ UNCHANGED <<parseDone, viewerVars, callVars, footerVars, todoVars>>

\* the end of the text: the last file is committed and files returned (diff.ts 210-211)
ParseEnd ==
    /\ ~parseDone
    /\ parseDone' = TRUE
    /\ SetParser(commitCurrent(ParserState))
    /\ UNCHANGED <<input, viewerVars, callVars, footerVars, todoVars>>

NextParse ==
    \/ \E line \in LinePool : ParseLine(line)
    \/ ParseEnd

SpecParse == InitParse /\ [][NextParse]_vars

(***************************************************************************)
(* parseDiffFiles on texts of several hunks and several files: the text    *)
(* starts with one of a few openings, already read by the loop, and goes   *)
(* on with up to MaxLines lines of file headers, hunk headers that start   *)
(* at different line numbers, and hunk lines.                              *)
(***************************************************************************)
Line_DiffGitY == <<"d", "i", "f", "f", " ", "-", "-", "g", "i", "t", " ", "a", "/", "y", " ", "b", "/", "y">>
Line_HunkLater == <<"@", "@", " ", "-", "1", "2", " ", "+", "7", ",", "2", " ", "@", "@", " ", "f">>

HunkLinePool ==
    {Line_DiffGit, Line_DiffGitY, Line_Hunk, Line_HunkLater, Line_Add, Line_Remove, Line_Context}

Openings ==
    { <<>>,
      <<Line_DiffGit, Line_HunkLater, Line_Context>>,
      <<Line_Add, Line_DiffGitY, Line_Context, Line_Hunk, Line_Remove>> }

EmptyParserState ==
    [files |-> <<>>, currentFile |-> <<>>, currentHunk |-> FALSE,
     currentOldLine |-> 0, currentNewLine |-> 0]

\* the loop of parseDiffFiles over the lines (diff.ts 98-208)
RECURSIVE ParseLines(_, _)
ParseLines(st, lines) ==
    IF lines = <<>> THEN st ELSE ParseLines(ParseStep(st, Head(lines)), Tail(lines))

InitParseHunks ==
    /\ ViewerIdle
    /\ FooterIdle
    /\ TodoIdle
    /\ callArgs \in {<<opening>> : opening \in Openings}
    /\ callResult = <<>>
    /\ input = callArgs[1]
    /\ LET st == ParseLines(EmptyParserState, callArgs[1])
       IN /\ files = st.files
          /\ currentFile = st.currentFile
          /\ currentHunk = st.currentHunk
          /\ currentOldLine = st.currentOldLine
          /\ currentNewLine = st.currentNewLine
    /\ parseDone = FALSE

\* one iteration of the loop, on a line after the opening
ParseLineAfterOpening(line) ==
    /\ ~parseDone
    /\ Len(input) < Len(callArgs[1]) + MaxLines
    /\ input' = Append(input, line)
    /\ SetParser(ParseStep(ParserState, line))
    /\ UNCHANGED <<parseDone, viewerVars, callVars, footerVars, todoVars>>

NextParseHunks ==
    \/ \E line \in HunkLinePool : ParseLineAfterOpening(line)
    \/ ParseEnd

SpecParseHunks == InitParseHunks /\ [][NextParseHunks]_vars

(***************************************************************************)
(* parseDiffFiles on texts of rename, mode and path lines, and the path    *)
(* the viewer displays for the files it returns.                           *)
(***************************************************************************)
Line_DiffGitRename == <<"d", "i", "f", "f", " ", "-", "-", "g", "i", "t", " ", "a", "/", "p", " ", "b", "/", "q">>
Line_DiffGitBare == <<"d", "i", "f", "f", " ", "-", "-", "g", "i", "t", " ", "x">>
Line_RenameFrom == <<"r", "e", "n", "a", "m", "e", " ", "f", "r", "o", "m", " ", "p">>
Line_RenameTo == <<"r", "e", "n", "a", "m", "e", " ", "t", "o", " ", "q">>
Line_RenameToSame == <<"r", "e", "n", "a", "m", "e", " ", "t", "o", " ", "p">>

RenameLinePool ==
    {Line_DiffGitRename, Line_DiffGitBare, Line_RenameFrom, Line_RenameTo, Line_RenameToSame,
     Line_NewFileMode, Line_DeletedFileMode, Line_RemoveDashes, Line_Hunk}

NextParseRename ==
    \/ \E line \in RenameLinePool : ParseLine(line)
    \/ ParseEnd

SpecParseRename == InitParse /\ [][NextParseRename]_vars

\* the one character U+2192 of getDisplayPath's template
Arrow == "->"

\* getDisplayPath (diff.ts 999-1003)
getDisplayPath(file) ==
    IF file.status = "renamed" /\ file.oldPath # file.newPath
    THEN file.oldPath \o <<" ", Arrow, " ">> \o file.newPath
    ELSE OrElse(file.newPath, file.oldPath)

(***************************************************************************)
(* processHighlightChunk on its own: the worker's timer is pending on      *)
(* queues that hold tasks of any generation, the current one or not.       *)
(* (No handler of the viewer leaves a task of another generation queued:   *)
(* see QueuedTasksCurrent.)                                                *)
(***************************************************************************)
MaxQueue == 2

TaskPool(snap) ==
    UNION {SeqRange(FileTasks(snap, i, gen)) : i \in 0..FileCount(snap) - 1, gen \in 0..MaxGen}

\* the sequences of at most n different members of S
Queues(S, n) ==
    {q \in UNION {[1..k -> S] : k \in 0..n} :
        \A i \in DOMAIN q : \A j \in DOMAIN q : i # j => q[i] # q[j]}

InitWorker ==
    /\ snapshot \in InitialSnapshots
    /\ fileIndex = 0
    /\ scrollOffset = 0
    /\ refreshing = FALSE
    /\ statusMessage = ""
    /\ closed = FALSE
    /\ composingMode = Null
    /\ composeText = <<>>
    /\ composeCursor = 0
    /\ sendingMessage = FALSE
    /\ splitRowsCache = EmptyMap
    /\ bodyLayoutCache = EmptyMap
    /\ sidebarDataCache = <<>>
    /\ highlightGeneration \in 0..MaxGen
    /\ highlightCache = EmptyMap
    /\ highlightQueueHigh \in Queues(TaskPool(snapshot), MaxQueue)
    /\ highlightQueueLow \in Queues(TaskPool(snapshot) \ SeqRange(highlightQueueHigh), MaxQueue)
    /\ highlightTimer = (highlightQueueHigh # <<>> \/ highlightQueueLow # <<>>)
    /\ highlightResumeTimer = FALSE
    /\ workerTimers = IF highlightTimer THEN 1 ELSE 0
    /\ resumeTimers = 0
    /\ highlightTotal = Len(highlightQueueHigh) + Len(highlightQueueLow)
    /\ highlightDone = 0
    /\ refreshCalls = 0
    /\ sendCalls = <<>>
    /\ renderRequested = FALSE
    /\ ParserIdle
    /\ FooterIdle
    /\ TodoIdle
    /\ NoCall

NextWorker ==
    \E n \in 1..Min(ChunkTaskLimit, Max(1, Len(highlightQueueHigh) + Len(highlightQueueLow))) :
        ProcessHighlightChunk(n)

SpecWorker == InitWorker /\ [][NextWorker]_vars

(***************************************************************************)
(* toSplitRows on its own (diff.ts 214-245): a file of one or two hunks    *)
(* whose first hunk is any sequence of context, removed and added lines.   *)
(* The k-th line of a hunk carries k as its line number, so that two lines *)
(* of a hunk are never equal.                                              *)
(***************************************************************************)
MaxHunkLines == 4

LineTypes == {"context", "add", "remove"}

NumberedLine(type, k) ==
    DiffLine(type, "t", IF type = "add" THEN NoLine ELSE k,
                        IF type = "remove" THEN NoLine ELSE k)

HunkOf(header, types) ==
    [header |-> header, lines |-> [k \in 1..Len(types) |-> NumberedLine(types[k], k)]]

TypeSeqs == UNION {[1..n -> LineTypes] : n \in 0..MaxHunkLines}

SecondHunk == HunkOf("@@ -9 +9 @@", <<"remove", "add">>)

FilesOfHunks ==
    {DiffFile("x.txt", FALSE, hunks, 0, 0, MaxHunkLines, MaxHunkLines) :
        hunks \in {<<HunkOf("@@ -1 +1 @@", types)>> : types \in TypeSeqs}
                  \cup {<<HunkOf("@@ -1 +1 @@", types), SecondHunk>> : types \in TypeSeqs}}

InitRows ==
    /\ InitViewer
    /\ ParserIdle
    /\ FooterIdle
    /\ TodoIdle
    /\ callArgs \in {<<file>> : file \in FilesOfHunks}
    /\ callResult = <<>>

CallToSplitRows ==
    /\ callResult = <<>>
    /\ callResult' = <<toSplitRows(callArgs[1])>>
    /\ UNCHANGED <<callArgs, viewerVars, parserVars, footerVars, todoVars>>

NextRows == CallToSplitRows

SpecRows == InitRows /\ [][NextRows]_vars

(***************************************************************************)
(* findRowIndexForOffset on its own (diff.ts 1189-1204), one action per    *)
(* iteration of its loop. Row indexes are the code's, from 0. The layouts  *)
(* are those getBodyLayout builds (rowStarts the prefix sums of            *)
(* rowHeights) and also any other rowStarts of the same length.            *)
(***************************************************************************)
MaxRows == 3

Heights == {1, 2}

PrefixSums(heights) == [i \in 1..Len(heights) |-> SeqSum(SubSeq(heights, 1, i - 1))]

LayoutsOf(n) ==
    {[rowStarts |-> starts, rowHeights |-> heights] :
        starts \in [1..n -> 0..2], heights \in [1..n -> Heights]}
    \cup {[rowStarts |-> PrefixSums(heights), rowHeights |-> heights] :
            heights \in [1..n -> Heights]}

LayoutPool == UNION {LayoutsOf(n) : n \in 0..MaxRows}

Offsets == -1..(2 * MaxRows + 1)

InitFindRow ==
    /\ InitViewer
    /\ ParserIdle
    /\ FooterIdle
    /\ TodoIdle
    /\ callArgs \in {[rowStarts |-> l.rowStarts, rowHeights |-> l.rowHeights, offset |-> o,
                      low |-> 0, high |-> Len(l.rowStarts) - 1] :
                        l \in LayoutPool, o \in Offsets}
    /\ callResult = <<>>

\* if (rowStarts.length === 0) return 0
FindRowEmpty ==
    /\ callResult = <<>>
    /\ Len(callArgs.rowStarts) = 0
    /\ callResult' = <<0>>
    /\ UNCHANGED <<callArgs, viewerVars, parserVars, footerVars, todoVars>>

\* one iteration of while (low <= high)
FindRowLoop ==
    /\ callResult = <<>>
    /\ Len(callArgs.rowStarts) # 0
    /\ callArgs.low <= callArgs.high
    /\ LET mid == (callArgs.low + callArgs.high) \div 2
           start == callArgs.rowStarts[mid + 1]
           end == start + callArgs.rowHeights[mid + 1]
       IN  IF callArgs.offset < start
           THEN callArgs' = [callArgs EXCEPT !.high = mid - 1] /\ UNCHANGED callResult
           ELSE IF callArgs.offset >= end
           THEN callArgs' = [callArgs EXCEPT !.low = mid + 1] /\ UNCHANGED callResult
           ELSE callResult' = <<mid>> /\ UNCHANGED callArgs
    /\ UNCHANGED <<viewerVars, parserVars, footerVars, todoVars>>

\* variant: the index the loop ended on is returned as it is
FindRowExit_Unclamped ==
    /\ callResult = <<>>
    /\ Len(callArgs.rowStarts) # 0
    /\ callArgs.low > callArgs.high
    /\ callResult' = <<callArgs.low>>
    /\ UNCHANGED <<callArgs, viewerVars, parserVars, footerVars, todoVars>>

\* return Math.max(0, Math.min(rowStarts.length - 1, low))
FindRowExit ==
    /\ callResult = <<>>
    /\ Len(callArgs.rowStarts) # 0
    /\ callArgs.low > callArgs.high
    /\ callResult' = <<Max(0, Min(Len(callArgs.rowStarts) - 1, callArgs.low))>>
    /\ UNCHANGED <<callArgs, viewerVars, parserVars, footerVars, todoVars>>

NextFindRow ==
    \/ FindRowEmpty
    \/ FindRowLoop
    \/ FindRowExit

SpecFindRow == InitFindRow /\ [][NextFindRow]_vars

(***************************************************************************)
(* File navigation on its own: a viewer constructed on snapshots whose     *)
(* sidebar order differs from the snapshot's order (a file at the root     *)
(* listed first, a directory inside a directory), stepped and scrolled.    *)
(***************************************************************************)
FileNested ==
    DiffFile(<<"src", "lib", "b.ts">>, FALSE,
             <<[header |-> "@@ -1,1 +1,1 @@",
                lines |-> <<DiffLine("context", "z", 1, 1)>>]>>,
             0, 0, 1, 1)

\* a file marked binary whose block also had a hunk
FileBinaryHunks ==
    DiffFile(<<"bin", "a.ts">>, TRUE,
             <<[header |-> "@@ -1,1 +1,2 @@",
                lines |-> <<DiffLine("context", "z", 1, 1), DiffLine("add", "y", NoLine, 2)>>]>>,
             1, 0, 1, 2)

NavSnapshots ==
    { <<FilePlain, FileBinary, FileNested, FileWide>>, <<FileBinary, FileWide>>,
      <<FileBinaryHunks, FileWide>>, <<FilePlain>>, <<>> }

InitNav ==
    /\ snapshot \in NavSnapshots
    /\ fileIndex = 0
    /\ scrollOffset = 0
    /\ refreshing = FALSE
    /\ statusMessage = ""
    /\ closed = FALSE
    /\ composingMode = Null
    /\ composeText = <<>>
    /\ composeCursor = 0
    /\ sendingMessage = FALSE
    /\ splitRowsCache = EmptyMap
    /\ bodyLayoutCache = EmptyMap
    /\ sidebarDataCache = <<>>
    /\ highlightGeneration = 0
    /\ highlightCache = EmptyMap
    /\ LET hs == rebuildHighlightQueue(
                     [high |-> <<>>, low |-> <<>>, timer |-> FALSE, resume |-> FALSE,
                      workerTimers |-> 0, resumeTimers |-> 0, total |-> 0, done |-> 0],
                     snapshot, 0, 0, EmptyMap, FALSE)
       IN /\ highlightQueueHigh = hs.high
          /\ highlightQueueLow = hs.low
          /\ highlightTimer = hs.timer
          /\ highlightResumeTimer = hs.resume
          /\ workerTimers = hs.workerTimers
          /\ resumeTimers = hs.resumeTimers
          /\ highlightTotal = hs.total
          /\ highlightDone = hs.done
    /\ refreshCalls = 0
    /\ sendCalls = <<>>
    /\ renderRequested = FALSE
    /\ ParserIdle
    /\ FooterIdle
    /\ TodoIdle
    /\ NoCall

\* An input that matched none of the keys of handleInput (diff.ts 579-591): a
\* mouse report in the SGR form ESC [ < code ; x ; y M, or any other text.
MouseCodes == {0, 1, 3, 35, 64, 65, 68, 69, 80, 128, 129, 192, 193}

UnboundInputs == {[kind |-> "mouse", code |-> c] : c \in MouseCodes}
                 \cup {[kind |-> "other", code |-> 0]}

WheelBit == 64

\* variant: the low bit is read the other way round
parseMouseWheel_Inverted(data) ==
    IF data.kind # "mouse" THEN Null
    ELSE IF (data.code \div WheelBit) % 2 = 0 THEN Null
    ELSE IF data.code % 2 = 0 THEN "down" ELSE "up"

\* parseMouseWheel (diff.ts 675-681)
parseMouseWheel(data) ==
    IF data.kind # "mouse" THEN Null
    ELSE IF (data.code \div WheelBit) % 2 = 0 THEN Null
    ELSE IF data.code % 2 = 0 THEN "up" ELSE "down"

\* the end of handleInput (diff.ts 593-596)
HandleUnboundInput(data) ==
    /\ Browsing
    /\ LET wheel == parseMouseWheel(data)
       IN  IF wheel = "up" THEN Scroll(-WheelStep)
           ELSE IF wheel = "down" THEN Scroll(WheelStep)
           ELSE UNCHANGED vars

NextNav ==
    \/ \E delta \in UNION {ScrollDeltas(rows) : rows \in TermRows} : Scroll(delta)
    \/ \E data \in UnboundInputs : HandleUnboundInput(data)
    \/ \E delta \in {-1, 1} : StepFile(delta)
    \/ \E width \in Widths : \E rows \in TermRows : Render(width, rows)
    \/ \E n \in 1..Min(ChunkTaskLimit, Max(1, Len(highlightQueueHigh) + Len(highlightQueueLow))) :
          ProcessHighlightChunk(n)
    \/ ResumeHighlight

SpecNav == InitNav /\ [][NextNav]_vars

(***************************************************************************)
(* rebuildHighlightQueue on its own (diff.ts 1321-1389): an open viewer    *)
(* whose scheduler is in one of the states earlier handlers leave it in,   *)
(* on snapshots with several highlightable files, a binary file that has   *)
(* hunks, a file without a language and a line that occurs twice.          *)
(***************************************************************************)
FileRepeat ==
    DiffFile(<<"lib", "a.ts">>, FALSE,
             <<[header |-> "@@ -1,1 +1,1 @@",
                lines |-> <<DiffLine("context", "z", 1, 1), DiffLine("remove", "", 2, NoLine)>>],
               [header |-> "@@ -1,1 +1,1 @@",
                lines |-> <<DiffLine("context", "z", 1, 1)>>]>>,
             0, 1, 2, 1)

RebuildSnapshots ==
    { <<FileWide, FileBinaryHunks, FileRepeat>>, <<FilePlain, FileRepeat, FileWide>>,
      <<FileBinaryHunks>>, <<>> }

IdleScheduler ==
    [high |-> <<>>, low |-> <<>>, timer |-> FALSE, resume |-> FALSE,
     workerTimers |-> 0, resumeTimers |-> 0, total |-> 0, done |-> 0]

\* the scheduler before the call: idle, a worker pending on an older queue,
\* or paused by a scroll
PriorSchedulers(snap) ==
    {IdleScheduler, pauseHighlightUntilIdle(IdleScheduler)}
    \cup {startHighlightWorker([IdleScheduler EXCEPT !.high = <<t>>, !.total = 1], FALSE) :
            t \in TaskPool(snap)}

\* the caches that hold some of the snapshot's keys of the generation
CachesOf(snap, gen) ==
    LET keys == {t.cacheKey : t \in {u \in TaskPool(snap) : u.generation = gen}}
    IN {[k \in K |-> <<"styled", k.text>>] : K \in SUBSET keys}

\* highlightQueuedKeys after the call: cleared, then one add per pushed task
QueuedKeysOf(hs) == {t.cacheKey : t \in SeqRange(hs.high) \cup SeqRange(hs.low)}

\* the calls the viewer makes: rebuildHighlightQueue(this.fileIndex)
RebuildCalls(snap, gen) ==
    {[hs |-> hs, snapshot |-> snap, primary |-> p, gen |-> gen, cache |-> cache] :
        hs \in PriorSchedulers(snap),
        p \in {i \in 0..2 : ValidIndex(snap, i) \/ i = 0},
        cache \in CachesOf(snap, gen)}

InitRebuild ==
    /\ InitViewer
    /\ ParserIdle
    /\ FooterIdle
    /\ TodoIdle
    /\ callArgs \in UNION {RebuildCalls(snap, gen) : snap \in RebuildSnapshots, gen \in 0..MaxGen}
    /\ callResult = <<>>

CallRebuildHighlightQueue ==
    /\ callResult = <<>>
    /\ LET a == callArgs
           hs == rebuildHighlightQueue(a.hs, a.snapshot, a.primary, a.gen, a.cache, FALSE)
       IN callResult' = <<[hs |-> hs, queuedKeys |-> QueuedKeysOf(hs)]>>
    /\ UNCHANGED <<callArgs, viewerVars, parserVars, footerVars, todoVars>>

NextRebuild == CallRebuildHighlightQueue

SpecRebuild == InitRebuild /\ [][NextRebuild]_vars

(***************************************************************************)
(* buildSidebarEntries on its own (diff.ts 1047-1086), on snapshots of up  *)
(* to MaxSidebarFiles files whose paths share directories, repeat, name a  *)
(* file like a directory, or are empty.                                    *)
(***************************************************************************)
MaxSidebarFiles == 3

SidebarPaths ==
    { <<>>, <<"LICENSE">>, <<"src">>, <<"src", "a.ts">>, <<"src", "lib", "b.ts">>,
      <<"src", "lib", "c.ts">>, <<"lib", "a.ts">> }

SidebarSnapshots ==
    UNION {[1..n -> {DiffFile(path, FALSE, <<>>, 0, 0, 0, 0) : path \in SidebarPaths}] :
             n \in 0..MaxSidebarFiles}

InitSidebar ==
    /\ InitViewer
    /\ ParserIdle
    /\ FooterIdle
    /\ TodoIdle
    /\ callArgs \in {<<snap>> : snap \in SidebarSnapshots}
    /\ callResult = <<>>

CallBuildSidebarEntries ==
    /\ callResult = <<>>
    /\ callResult' = <<buildSidebarEntries(callArgs[1])>>
    /\ UNCHANGED <<callArgs, viewerVars, parserVars, footerVars, todoVars>>

NextSidebar == CallBuildSidebarEntries

SpecSidebar == InitSidebar /\ [][NextSidebar]_vars

(***************************************************************************)
(* The footer extension (custom-footer.ts): the branch the host reports,   *)
(* the branch-change callback, the PR lookups it starts, which complete in *)
(* any order, and row 1 of the footer. The push state and the token row    *)
(* have no part in which link is shown and are left out.                   *)
(***************************************************************************)
MaxLookups == 3      \* calls of refreshPrUrl that reach their await

Raw_Main == <<"m", "a", "i", "n">>
Raw_Dev == <<"d", "e", "v">>
Raw_DevSpaced == <<" ", "d", "e", "v", " ">>
Raw_Head == <<"H", "E", "A", "D">>

\* what footerData.getGitBranch() can return
RawBranches == {<<>>} \cup {<<raw>> : raw \in {Raw_Main, Raw_Dev, Raw_DevSpaced, Raw_Head}}

\* normalizeBranch (custom-footer.ts 48-52)
normalizeBranch(branch) ==
    IF branch = <<>> THEN <<>>
    ELSE LET value == Trim(branch[1])
         IN IF value = <<>> \/ value = Raw_Head THEN <<>> ELSE <<value>>

\* what fetchLatestOpenPr(cwd, branch) can resolve to: no url, or the url of an
\* open PR whose head is that branch
LookupResults(branch) == {<<>>, <<[head |-> branch]>>}

\* variant: the stored link is shown whatever branch it was looked up for
showPrUrl_AnyBranch(branch, storedBranch, storedUrl) ==
    IF branch # <<>> THEN storedUrl ELSE <<>>

\* const showPrUrl = branch && prBranch === branch ? prUrl : null
showPrUrl(branch, storedBranch, storedUrl) ==
    IF branch # <<>> /\ storedBranch = branch THEN storedUrl ELSE <<>>

InitFooter == ViewerIdle /\ ParserIdle /\ NoCall /\ FooterIdle /\ TodoIdle

\* refreshPrUrl(ctx, branch) up to its await (custom-footer.ts 240-252)
StartRefreshPrUrl(branch) ==
    IF branch = <<>>
    THEN /\ prUrl' = <<>>
         /\ prBranch' = <<>>
         /\ UNCHANGED <<lookups, lookupsStarted>>
    ELSE /\ lookupsStarted < MaxLookups
         /\ lookups' = lookups \cup {[id |-> lookupsStarted + 1, branch |-> branch]}
         /\ lookupsStarted' = lookupsStarted + 1
         /\ UNCHANGED <<prUrl, prBranch>>

\* the host's branch changes (checkout, detached HEAD, leaving the repository)
HostBranchChange(raw) ==
    /\ raw # gitBranch
    /\ gitBranch' = raw
    /\ UNCHANGED <<footerInstalled, currentBranch, prUrl, prBranch, lookups, lookupsStarted,
                   footerFrame, viewerVars, parserVars, callVars, todoVars>>

\* session_start: installFooter, whose factory calls updateBranch (custom-footer.ts 262-273, 291-293)
SessionStart ==
    /\ ~footerInstalled
    /\ footerInstalled' = TRUE
    /\ currentBranch' = normalizeBranch(gitBranch)
    /\ StartRefreshPrUrl(currentBranch')
    /\ UNCHANGED <<gitBranch, footerFrame, viewerVars, parserVars, callVars, todoVars>>

\* updateBranch, called by the host through onBranchChange (custom-footer.ts 267-273)
UpdateBranch ==
    /\ footerInstalled
    /\ currentBranch' = normalizeBranch(gitBranch)
    /\ StartRefreshPrUrl(currentBranch')
    /\ UNCHANGED <<gitBranch, footerInstalled, footerFrame, viewerVars, parserVars, callVars, todoVars>>

\* agent_end: refreshPrUrl(ctx, currentBranch) (custom-footer.ts 295-297)
AgentEnd ==
    /\ StartRefreshPrUrl(currentBranch)
    /\ UNCHANGED <<gitBranch, footerInstalled, currentBranch, footerFrame,
                   viewerVars, parserVars, callVars, todoVars>>

\* a call of refreshPrUrl goes on after its await (custom-footer.ts 252-259)
LookupCompletes(lookup, url) ==
    /\ lookup \in lookups
    /\ lookups' = lookups \ {lookup}
    /\ prUrl' = url
    /\ prBranch' = lookup.branch
    /\ UNCHANGED <<gitBranch, footerInstalled, currentBranch, lookupsStarted, footerFrame,
                   viewerVars, parserVars, callVars, todoVars>>

\* render: row 1 (custom-footer.ts 179-203, 280-285)
RenderRow1 ==
    /\ footerInstalled
    /\ LET branch == normalizeBranch(gitBranch)
       IN footerFrame' = <<[branch |-> branch, link |-> showPrUrl(branch, prBranch, prUrl)]>>
    /\ UNCHANGED <<gitBranch, footerInstalled, currentBranch, prUrl, prBranch, lookups,
                   lookupsStarted, viewerVars, parserVars, callVars, todoVars>>

NextFooter ==
    \/ \E raw \in RawBranches : HostBranchChange(raw)
    \/ SessionStart
    \/ UpdateBranch
    \/ AgentEnd
    \/ \E lookup \in lookups : \E url \in LookupResults(lookup.branch) : LookupCompletes(lookup, url)
    \/ RenderRow1

SpecFooter == InitFooter /\ [][NextFooter]_vars

(***************************************************************************)
(* The worker on queues longer than one invocation may serve: a viewer     *)
(* constructed on a file of two lines and a file of more lines than        *)
(* ChunkTaskLimit, showing either of them.                                 *)
(***************************************************************************)
MaxExtraTasks == 3

LongFile ==
    DiffFile(<<"lib", "a.ts">>, FALSE,
             <<[header |-> "@@ -1,1 +1,1 @@",
                lines |-> [k \in 1..ChunkTaskLimit + MaxExtraTasks |-> DiffLine("context", "z", k, k)]]>>,
             0, 0, ChunkTaskLimit + MaxExtraTasks, ChunkTaskLimit + MaxExtraTasks)

InitWorkerLong ==
    /\ snapshot = <<FileWide, LongFile>>
    /\ fileIndex \in {0, 1}
    /\ scrollOffset = 0
    /\ refreshing = FALSE
    /\ statusMessage = ""
    /\ closed = FALSE
    /\ composingMode = Null
    /\ composeText = <<>>
    /\ composeCursor = 0
    /\ sendingMessage = FALSE
    /\ splitRowsCache = EmptyMap
    /\ bodyLayoutCache = EmptyMap
    /\ sidebarDataCache = <<>>
    /\ highlightGeneration = 0
    /\ highlightCache = EmptyMap
    /\ LET hs == rebuildHighlightQueue(IdleScheduler, snapshot, fileIndex, 0, EmptyMap, FALSE)
       IN /\ highlightQueueHigh = hs.high
          /\ highlightQueueLow = hs.low
          /\ highlightTimer = hs.timer
          /\ highlightResumeTimer = hs.resume
          /\ workerTimers = hs.workerTimers
          /\ resumeTimers = hs.resumeTimers
          /\ highlightTotal = hs.total
          /\ highlightDone = hs.done
    /\ refreshCalls = 0
    /\ sendCalls = <<>>
    /\ renderRequested = FALSE
    /\ ParserIdle
    /\ FooterIdle
    /\ TodoIdle
    /\ NoCall

\* how many tasks the 8 ms budget of an invocation has room for
BatchSizes == {1, 2, ChunkTaskLimit - 1, ChunkTaskLimit, ChunkTaskLimit + 1}

NextWorkerLong == \E n \in BatchSizes : ProcessHighlightChunk(n)

SpecWorkerLong == InitWorkerLong /\ [][NextWorkerLong]_vars

(***************************************************************************)
(* Properties of the viewer                                                *)
(***************************************************************************)
AllScrollDeltas == UNION {ScrollDeltas(rows) : rows \in TermRows}

\* C1, as the specification states it: after any scroll operation the offset lies
\* between 0 and max(0, totalLines - viewportHeight) of the displayed file.
C1_ScrollWithinExtent ==
    [][\A delta \in AllScrollDeltas :
          Scroll(delta) =>
              \E width \in Widths : \E rows \in TermRows :
                  /\ scrollOffset' >= 0
                  /\ scrollOffset' <= RenderMaxOffset(snapshot, fileIndex, splitRowsCache,
                                                      bodyLayoutCache, BodyWidth(width),
                                                      viewportHeight(rows))]_vars

\* C1, amended: a scroll operation keeps the offset at or above 0 and leaves it
\* otherwise unbounded; it is the next render that brings the offset into
\* 0..max(0, totalLines - viewportHeight) for the width and rows it renders at.
C1_ScrollClampedAtRender ==
    [][/\ scrollOffset' >= 0
       /\ \A delta \in AllScrollDeltas :
             Scroll(delta) => scrollOffset' = (IF scrollOffset + delta < 0 THEN 0
                                               ELSE scrollOffset + delta)
       /\ \A width \in Widths : \A rows \in TermRows :
             (/\ ~renderRequested'
              /\ Render(width, rows)
              /\ BodyKind(snapshot, fileIndex, splitRowsCache) # "missing") =>
                 /\ scrollOffset' <= scrollOffset
                 /\ scrollOffset' <=
                      Max(0, BodyTotalLines(snapshot, fileIndex, splitRowsCache',
                                            bodyLayoutCache', BodyWidth(width))
                             - viewportHeight(rows))]_vars

\* a render has clamped a scrolled offset to the last page of the wide file
C1_Witness ==
    /\ ~renderRequested
    /\ ValidIndex(snapshot, fileIndex)
    /\ scrollOffset > 0
    /\ scrollOffset = RenderMaxOffset(snapshot, fileIndex, splitRowsCache, bodyLayoutCache,
                                      BodyWidth(40), viewportHeight(12))

\* C2: when onRefresh() fails on an open viewer, the snapshot, file index, scroll
\* offset, highlight generation, highlight cache, queues and the layout, split-row and
\* sidebar caches stay as they were; only the status message (now "Refresh failed")
\* and the refreshing flag change, and refresh() is no longer blocked by the flag.
C2_FailedRefreshKeepsState ==
    [][(RefreshReject /\ ~closed) =>
          /\ UNCHANGED <<snapshot, fileIndex, scrollOffset, highlightGeneration,
                         highlightCache, highlightQueueHigh, highlightQueueLow,
                         highlightTimer, highlightResumeTimer, workerTimers, resumeTimers,
                         highlightTotal, highlightDone, splitRowsCache, bodyLayoutCache,
                         sidebarDataCache, composingMode, composeText, composeCursor,
                         sendingMessage, closed>>
          /\ refreshing /\ ~refreshing'
          /\ statusMessage' = "Refresh failed"
          /\ ~closed']_vars

\* a refresh has failed on an open viewer that was scrolled and had highlighted lines
C2_Witness ==
    /\ statusMessage = "Refresh failed"
    /\ ~closed /\ ~refreshing
    /\ scrollOffset > 0
    /\ highlightCache # EmptyMap

\* C3: a successful refresh on an open viewer installs the new snapshot, clamps the
\* file index into it, resets the scroll offset, empties the split-row, body-layout,
\* sidebar and highlight caches, increments the generation and rebuilds the queues
\* for the new snapshot, all in the one step that follows the await.
C3_RefreshInstallsAtOnce ==
    [][\A snap \in SnapshotPool :
          (RefreshResolve(snap) /\ ~closed) =>
              /\ snapshot' = snap
              /\ fileIndex < FileCount(snap) => fileIndex' = fileIndex
              /\ fileIndex >= FileCount(snap) => fileIndex' = Max(0, FileCount(snap) - 1)
              /\ scrollOffset' = 0
              /\ splitRowsCache' = EmptyMap
              /\ bodyLayoutCache' = EmptyMap
              /\ sidebarDataCache' = <<>>
              /\ highlightCache' = EmptyMap
              /\ highlightGeneration' = highlightGeneration + 1
              /\ \A t \in SeqRange(highlightQueueHigh') \cup SeqRange(highlightQueueLow') :
                    /\ t.generation = highlightGeneration'
                    /\ t.cacheKey.generation = highlightGeneration'
                    /\ ValidIndex(snap, t.cacheKey.fileIndex)
              /\ Len(highlightQueueHigh') + Len(highlightQueueLow') = highlightTotal'
              /\ ~refreshing']_vars

\* a refresh has installed the one-file snapshot over the two-file one
C3_Witness ==
    /\ statusMessage = "Refreshed at"
    /\ snapshot \notin InitialSnapshots
    /\ FileCount(snapshot) = 1
    /\ fileIndex = 0
    /\ highlightGeneration = 1
    /\ ~closed

\* C4, as the specification states it: when the viewer is closed while a refresh or a
\* send is in flight, the completion, successful or failed, changes no snapshot, status
\* message, compose state or cache and requests no render.
C4_ClosedResultDiscarded ==
    [][(closed /\ (refreshCalls' < refreshCalls \/ Len(sendCalls') < Len(sendCalls))) =>
          UNCHANGED <<snapshot, statusMessage, composingMode, composeText, composeCursor,
                      splitRowsCache, bodyLayoutCache, sidebarDataCache, highlightCache,
                      renderRequested>>]_vars

\* C5, as the specification states it: once the viewer is closed, no worker timer and
\* no resume timer is pending and both queues are empty, whatever happens next.
C5_QuietAfterClose ==
    closed =>
        /\ workerTimers = 0 /\ ~highlightTimer
        /\ resumeTimers = 0 /\ ~highlightResumeTimer
        /\ highlightQueueHigh = <<>> /\ highlightQueueLow = <<>>

\* the tasks a step of the worker has taken off the queues
Dequeued(high, low, highAfter, lowAfter) ==
    SubSeq(high \o low, 1, Len(high) + Len(low) - Len(highAfter) - Len(lowAfter))

\* C6: the worker writes a cache entry only for a dequeued task whose generation is the
\* viewer's generation; a dequeued task of another generation leaves no cache entry and
\* is not counted as done (it is dropped before the tokenizer is called).
C6_StaleTasksDropped ==
    [][LET taken == Dequeued(highlightQueueHigh, highlightQueueLow,
                             highlightQueueHigh', highlightQueueLow')
           written == DOMAIN highlightCache' \ DOMAIN highlightCache
       IN (\E n \in 1..Len(highlightQueueHigh) + Len(highlightQueueLow) :
              ProcessHighlightChunk(n) /\ ~closed) =>
             /\ \A key \in written :
                   \E i \in DOMAIN taken : /\ taken[i].cacheKey = key
                                           /\ taken[i].generation = highlightGeneration
             /\ \A i \in DOMAIN taken :
                   taken[i].generation # highlightGeneration =>
                       taken[i].cacheKey \notin written
             /\ highlightDone' - highlightDone = Cardinality(written)]_vars

\* the worker has emptied queues that held a task of the current generation, which it
\* wrote, and a task of another generation, which it dropped
C6_Witness ==
    /\ highlightQueueHigh = <<>> /\ highlightQueueLow = <<>>
    /\ ~highlightTimer
    /\ renderRequested
    /\ highlightDone > 0
    /\ highlightDone < highlightTotal

\* every queued task carries the viewer's generation
QueuedTasksCurrent ==
    \A t \in SeqRange(highlightQueueHigh) \cup SeqRange(highlightQueueLow) :
        t.generation = highlightGeneration

\* C7: the generation never decreases, every key of the highlight cache is built under
\* the current generation, and a step that changes the generation leaves the cache
\* empty.
C7_CacheOfCurrentGeneration ==
    [][/\ highlightGeneration' >= highlightGeneration
       /\ highlightGeneration' # highlightGeneration => highlightCache' = EmptyMap
       /\ \A key \in DOMAIN highlightCache : key.generation = highlightGeneration
       /\ \A key \in DOMAIN highlightCache' : key.generation = highlightGeneration']_vars

\* lines were highlighted again after the generation was raised
C7_Witness == highlightGeneration > 0 /\ highlightCache # EmptyMap

\* C8, as the specification states it: while the resume timer of a file switch is
\* pending, the queues are rebuilt by nothing but that timer firing.
C8_RebuildOnlyWhenQuiet ==
    [][(highlightResumeTimer /\ (highlightQueueHigh' # <<>> \/ highlightQueueLow' # <<>>)) =>
          ResumeHighlight]_vars

\* C8, amended: a file switch empties both queues, cancels the worker timer and leaves
\* exactly one resume timer pending, however many switches preceded it; while that
\* timer is pending the queues stay empty and no worker runs, unless invalidate() or a
\* successful refresh rebuilds the queues at once, which cancels the timer; when the
\* timer fires on an open viewer the queues are rebuilt once, for the file then shown.
C8_SwitchPausesHighlighting ==
    [][/\ \A delta \in {-1, 1} :
             StepFile(delta) =>
                 /\ highlightQueueHigh' = <<>> /\ highlightQueueLow' = <<>>
                 /\ workerTimers' = 0 /\ ~highlightTimer'
                 /\ resumeTimers' = 1 /\ highlightResumeTimer'
       /\ resumeTimers' <= 1
       /\ resumeTimers' = 1 =>
             /\ highlightQueueHigh' = <<>> /\ highlightQueueLow' = <<>>
             /\ workerTimers' = 0
       /\ (highlightResumeTimer /\ (highlightQueueHigh' # <<>> \/ highlightQueueLow' # <<>>)) =>
             /\ ~highlightResumeTimer' /\ resumeTimers' = 0
             /\ \/ ResumeHighlight
                \/ Invalidate
                \/ \E snap \in SnapshotPool : RefreshResolve(snap)
       /\ (ResumeHighlight /\ ~closed) =>
             LET q == BuildQueues(snapshot, fileIndex, highlightGeneration, highlightCache)
             IN /\ resumeTimers' = 0
                /\ highlightQueueHigh' = (IF FileCount(snapshot) = 0 THEN <<>> ELSE q.high)
                /\ highlightQueueLow' = (IF FileCount(snapshot) = 0 THEN <<>> ELSE q.low)]_vars

\* after a switch to the second file the timer has fired and queued that file's lines
\* first
C8_Witness ==
    /\ fileIndex = 1
    /\ highlightGeneration = 0
    /\ resumeTimers = 0
    /\ highlightQueueHigh # <<>>
    /\ \A t \in SeqRange(highlightQueueHigh) : t.cacheKey.fileIndex = 1

(***************************************************************************)
(* Properties of the parser                                                *)
(***************************************************************************)
LastLine(file) ==
    LET hunk == file.hunks[Len(file.hunks)] IN hunk.lines[Len(hunk.lines)]

\* the line was appended to the open hunk with this type
Pushed(before, after, type, line) ==
    /\ after # <<>>
    /\ Len(after[1].hunks) = Len(before[1].hunks)
    /\ Len(after[1].hunks) > 0
    /\ Len(after[1].hunks[Len(after[1].hunks)].lines)
         = Len(before[1].hunks[Len(before[1].hunks)].lines) + 1
    /\ LastLine(after[1]).type = type
    /\ LastLine(after[1]).text = Slice(line, 1)

\* C9, as the specification states it: inside a hunk a line that starts with "+" is
\* an addition and counted as one, a line that starts with "-" is a removal and counted
\* as one, a line that starts with a blank is context, whatever follows the first
\* character.
C9_HunkLineByFirstChar ==
    [][\A line \in LinePool :
          (ParseLine(line) /\ currentFile # <<>> /\ currentHunk) =>
              /\ line[1] = "+" =>
                    /\ Pushed(currentFile, currentFile', "add", line)
                    /\ currentFile'[1].additions = currentFile[1].additions + 1
              /\ line[1] = "-" =>
                    /\ Pushed(currentFile, currentFile', "remove", line)
                    /\ currentFile'[1].deletions = currentFile[1].deletions + 1
              /\ line[1] = " " => Pushed(currentFile, currentFile', "context", line)]_vars

\* C10, as the specification states it: a file block whose "--- " or "+++ " line names
\* /dev/null is committed as added or deleted, never as modified, with or without a
\* "new file mode" or "deleted file mode" line.
C10_DevNullIsAddedOrDeleted ==
    (/\ parseDone
     /\ Len(input) >= 2
     /\ input[1] = Line_DiffGit
     /\ input[2] \in {Line_OldNull, Line_NewNull}
     /\ \A i \in 2..Len(input) : input[i] # Line_DiffGit) =>
        /\ Len(files) = 1
        /\ files[1].status \in {"added", "deleted"}


(***************************************************************************)
(* Properties of toSplitRows                                               *)
(***************************************************************************)
HeaderRows(rows) == {p \in 1..Len(rows) : rows[p].type = "hunk"}

\* the position in rows of the n-th hunk header row
NthHeader(rows, n) ==
    CHOOSE p \in HeaderRows(rows) : Cardinality({q \in HeaderRows(rows) : q < p}) = n - 1

\* the rows after the n-th header row, up to the next header row
RowsOfHunk(rows, n) ==
    SubSeq(rows, NthHeader(rows, n) + 1,
           IF n = Cardinality(HeaderRows(rows)) THEN Len(rows) ELSE NthHeader(rows, n + 1) - 1)

NonContext(lines, a, b) == \A j \in a..b : lines[j].type # "context"

\* lines[d] is the last line of a maximal run of non-context lines
EndsRun(lines, d) ==
    /\ lines[d].type # "context"
    /\ d = Len(lines) \/ lines[d + 1].type = "context"

\* the maximal run of non-context lines that ends at lines[d]
RunEndingAt(lines, d) ==
    LET a == CHOOSE a \in 1..d : NonContext(lines, a, d)
                                 /\ (a = 1 \/ lines[a - 1].type = "context")
    IN  SubSeq(lines, a, d)

RunRemoves(lines, d) == OfType(RunEndingAt(lines, d), "remove")
RunAdds(lines, d) == OfType(RunEndingAt(lines, d), "add")

\* the rows that the lines before lines[k] account for
RowsBefore(lines, k) ==
    SeqSum([j \in 1..k - 1 |->
        IF lines[j].type = "context" THEN 1
        ELSE IF EndsRun(lines, j)
             THEN Max(Len(RunRemoves(lines, j)), Len(RunAdds(lines, j)))
             ELSE 0])

PairedRows(lines, rows) ==
    /\ Len(rows) = RowsBefore(lines, Len(lines) + 1)
    /\ \A k \in 1..Len(lines) :
        /\ lines[k].type = "context" =>
              rows[RowsBefore(lines, k) + 1] = LineRow(lines[k], lines[k])
        /\ EndsRun(lines, k) =>
              LET removes == RunRemoves(lines, k)
                  adds == RunAdds(lines, k)
                  base == RowsBefore(lines, k + 1) - Max(Len(removes), Len(adds))
              IN  \A i \in 1..Max(Len(removes), Len(adds)) :
                      rows[base + i] =
                          LineRow(IF i <= Len(removes) THEN removes[i] ELSE Absent,
                                  IF i <= Len(adds) THEN adds[i] ELSE Absent)

\* C11: toSplitRows gives, for each hunk in order, one header row, then one row
\* per context line with that line on both sides, and for every maximal run of
\* non-context lines with R removes and A adds, in any interleaving, max(R, A)
\* rows: row i has the i-th remove on the left and the i-th add on the right,
\* and the shorter side is absent in the last |R - A| rows.
C11_SplitRowsPairRuns ==
    callResult # <<>> =>
        LET hunks == callArgs[1].hunks
            rows == callResult[1]
        IN  /\ Cardinality(HeaderRows(rows)) = Len(hunks)
            /\ \A n \in 1..Len(hunks) :
                /\ rows[NthHeader(rows, n)] = HunkRow(hunks[n].header)
                /\ PairedRows(hunks[n].lines, RowsOfHunk(rows, n))
            /\ Len(hunks) > 0 => NthHeader(rows, 1) = 1

\* a hunk of one context line, one remove and two adds gave a context row, a
\* paired row and a row whose left side is absent
C11_Witness ==
    /\ callResult # <<>>
    /\ Len(callArgs[1].hunks) = 2
    /\ LET lines == callArgs[1].hunks[1].lines
           rows == callResult[1]
       IN  /\ Len(lines) = 4
           /\ lines[1].type = "context"
           /\ lines[2].type = "add"
           /\ lines[3].type = "remove"
           /\ lines[4].type = "add"
           /\ Len(rows) = 6
           /\ rows[3] = LineRow(lines[3], lines[2])
           /\ rows[4] = LineRow(Absent, lines[4])
           /\ rows[5].type = "hunk"


(***************************************************************************)
(* Properties of findRowIndexForOffset                                     *)
(***************************************************************************)
IsLayout(args) == args.rowStarts = PrefixSums(args.rowHeights)

TotalLines(args) == SeqSum(args.rowHeights)

\* row i (from 0) holds the offset
RowHolds(args, i) ==
    /\ args.rowStarts[i + 1] <= args.offset
    /\ args.offset < args.rowStarts[i + 1] + args.rowHeights[i + 1]

RowIndexResult(args, i) ==
    /\ i \in 0..Len(args.rowStarts) - 1
    /\ args.offset \in 0..TotalLines(args) - 1 =>
          /\ RowHolds(args, i)
          /\ \A j \in 0..Len(args.rowStarts) - 1 : RowHolds(args, j) => j = i
    /\ args.offset < 0 => i = 0
    /\ args.offset >= TotalLines(args) => i = Len(args.rowStarts) - 1

SideLines(line, contentWidth) ==
    IF line = Absent THEN 1
    ELSE Max(1, WrapCount(IF line.text = "" THEN " " ELSE line.text, contentWidth))

LayoutOfRows(layout, rows, file, width) ==
    LET metrics == rowRenderMetrics(file, width)
        n == Len(rows)
    IN  /\ Len(layout.rowStarts) = n
        /\ Len(layout.rowHeights) = n
        /\ n > 0 => layout.rowStarts[1] = 0
        /\ \A i \in 1..n :
            /\ layout.rowHeights[i] >= 1
            /\ layout.rowHeights[i] =
                  IF rows[i].type = "hunk" THEN 1
                  ELSE Max(SideLines(rows[i].left, metrics.leftContentWidth),
                           SideLines(rows[i].right, metrics.rightContentWidth))
            /\ i < n => layout.rowStarts[i] + layout.rowHeights[i] = layout.rowStarts[i + 1]
        /\ layout.totalLines = SeqSum(layout.rowHeights)

\* C13: every body layout in the layout cache, under (fileIndex, width), has one
\* entry per split row of that file in the current snapshot; rowStarts[0] = 0;
\* every rowHeights[i] is at least 1 (1 for a hunk header, the larger of the two
\* sides' wrapped line counts for a line row, an absent side counting 1);
\* rowStarts[i] + rowHeights[i] = rowStarts[i+1]; totalLines is the sum of rowHeights.
C13_LayoutCacheMatchesRows ==
    \A key \in DOMAIN bodyLayoutCache :
        /\ ValidIndex(snapshot, key[1])
        /\ LayoutOfRows(bodyLayoutCache[key], toSplitRows(FileAt(snapshot, key[1])),
                        FileAt(snapshot, key[1]), key[2])

\* after a refresh, the cache holds a layout of several rows, one of them
\* taller than one line
C13_Witness ==
    /\ refreshCalls > 0
    /\ \E key \in DOMAIN bodyLayoutCache :
        /\ Len(bodyLayoutCache[key].rowHeights) > 2
        /\ \E i \in 1..Len(bodyLayoutCache[key].rowHeights) :
              bodyLayoutCache[key].rowHeights[i] > 1


(***************************************************************************)
(* Properties of render                                                    *)
(***************************************************************************)
\* C14: in every viewer state and for every requested width w, also below 40,
\* each line render(w) returns has a visible width of at most w.
C14_LinesWithinWidth ==
    \A w \in RequestedWidths, rows \in TermRows :
        \A i \in DOMAIN RenderedLineWidths(w, rows) : RenderedLineWidths(w, rows)[i] <= w


\* the lines of the body render shows: the two lines of the notice of an empty
\* snapshot, the one line of a placeholder, or the wrapped lines of all rows
ShownLines(width) ==
    IF FileCount(snapshot) = 0 THEN 2
    ELSE LET file == FileAt(snapshot, fileIndex)
             rows == toSplitRows(file)
             metrics == rowRenderMetrics(file, BodyWidth(width))
         IN  IF file.isBinary \/ rows = <<>> THEN 1
             ELSE SeqSum([i \in 1..Len(rows) |->
                     IF rows[i].type = "hunk" THEN 1
                     ELSE Max(SideLines(rows[i].left, metrics.leftContentWidth),
                              SideLines(rows[i].right, metrics.rightContentWidth))])

\* C15: every call of render leaves scrollOffset within 0..maxOffset, where
\* maxOffset = max(0, totalLines - viewportHeight) of the body shown (the notice
\* of an empty snapshot, a placeholder, or the laid-out rows), and the footer of
\* that frame shows this clamped scrollOffset against the same maxOffset.
C15_RenderClampsAndFooterAgrees ==
    [][\A width \in Widths : \A rows \in TermRows :
          (~renderRequested' /\ Render(width, rows)) =>
              LET maxOffset == Max(0, ShownLines(width) - viewportHeight(rows))
              IN  /\ scrollOffset' \in 0..maxOffset
                  /\ RenderFooter(width, rows) =
                        [scrollOffset |-> scrollOffset', maxOffset |-> maxOffset]]_vars

\* a frame of the wide file has been rendered on the taller terminal's last page
C15_Witness ==
    /\ ~renderRequested
    /\ ValidIndex(snapshot, fileIndex)
    /\ FileAt(snapshot, fileIndex) = FileWide
    /\ <<fileIndex, BodyWidth(40)>> \in DOMAIN bodyLayoutCache
    /\ scrollOffset = ShownLines(40) - viewportHeight(20)
    /\ scrollOffset > 0
    /\ refreshCalls > 0


(***************************************************************************)
(* Properties of file navigation                                           *)
(***************************************************************************)
FileOrder == BuildSidebarData(snapshot).fileOrder

\* where in the sidebar's file order the file is, from 1
OrderPosition(index) == CHOOSE k \in 1..Len(FileOrder) : FileOrder[k] = index

NextFile(index) ==
    StepTarget(FileOrder, BuildSidebarData(snapshot).fileOrderIndex, index, 1)

PreviousFile(index) ==
    StepTarget(FileOrder, BuildSidebarData(snapshot).fileOrderIndex, index, -1)

\* the files met by n 'next' steps from a file, the last one last
RECURSIVE NextFiles(_, _)
NextFiles(index, n) ==
    IF n = 0 THEN <<>> ELSE <<NextFile(index)>> \o NextFiles(NextFile(index), n - 1)

\* C16: with at least one file, 'next file' moves fileIndex to its successor in
\* the sidebar's depth-first file order and 'previous file' to its predecessor,
\* wrapping at both ends: next then previous, and previous then next, come back
\* to the same file; N 'next' steps over N files visit every file once and end
\* where they started; every step sets scrollOffset to 0. With no files there
\* is no step.
C16_StepFileCyclesInSidebarOrder ==
    /\ [](LET N == FileCount(snapshot)
          IN  IF N = 0 THEN \A delta \in {-1, 1} : ~ENABLED StepFile(delta)
              ELSE /\ Len(FileOrder) = N
                   /\ SeqRange(FileOrder) = 0..N - 1
                   /\ \A f \in 0..N - 1 :
                        /\ NextFile(f) = FileOrder[(OrderPosition(f) % N) + 1]
                        /\ PreviousFile(f) = FileOrder[((OrderPosition(f) + N - 2) % N) + 1]
                        /\ PreviousFile(NextFile(f)) = f
                        /\ NextFile(PreviousFile(f)) = f
                        /\ SeqRange(NextFiles(f, N)) = 0..N - 1
                        /\ NextFiles(f, N)[N] = f)
    /\ [][\A delta \in {-1, 1} :
            StepFile(delta) =>
                /\ fileIndex' = (IF delta = 1 THEN NextFile(fileIndex)
                                 ELSE PreviousFile(fileIndex))
                /\ scrollOffset' = 0
                /\ snapshot' = snapshot]_vars

\* 'next file' from the last file of the sidebar (the file at the root, first
\* in the snapshot) has wrapped to the first one (the nested file, third in the
\* snapshot), and the highlighting pause it starts is pending
C16_Witness ==
    /\ FileCount(snapshot) = 4
    /\ FileOrder = <<2, 1, 3, 0>>
    /\ fileIndex = 2
    /\ scrollOffset = 0
    /\ sidebarDataCache # <<>>
    /\ highlightResumeTimer
    /\ renderRequested


(***************************************************************************)
(* Properties of compose mode                                              *)
(***************************************************************************)
SubmitModes == {"steer", "followUp"}

\* submitCompose (diff.ts 790-797) acts on the blank text and reports it
BlankSubmitReported(mode) ==
    ENABLED (SubmitCompose(mode) /\ statusMessage' = "Message empty")

\* C17, as the specification states it: whenever a compose whose text is empty
\* after trimming is submitted, the status becomes 'Message empty' (and nothing
\* is sent, the viewer stays in compose mode, the text, cursor and sending flag
\* stay as they are).
C17_BlankSubmitSetsMessageEmpty ==
    (~Browsing /\ Blank(composeText)) => \A mode \in SubmitModes : BlankSubmitReported(mode)

\* C17, amended: a submit of a text that is empty after trimming never calls
\* the messaging collaborator and leaves compose mode, the text, the cursor and
\* the sending flag as they are; it sets the status to 'Message empty' when no
\* send is in flight, and is ignored altogether, status included, while one is.
C17_BlankSubmitSendsNothing ==
    /\ []((~Browsing /\ Blank(composeText)) =>
            \A mode \in SubmitModes :
                /\ BlankSubmitReported(mode) <=> ~sendingMessage
                /\ sendingMessage => ~ENABLED SubmitCompose(mode))
    /\ [][\A mode \in SubmitModes :
            (Blank(composeText) /\ SubmitCompose(mode)) =>
                /\ sendCalls' = sendCalls
                /\ statusMessage' = "Message empty"
                /\ composingMode # Null
                /\ UNCHANGED <<composingMode, composeText, composeCursor, sendingMessage>>]_vars

\* a text of one blank was submitted and reported empty
C17_Witness ==
    /\ ~Browsing
    /\ composeText = <<" ">>
    /\ composeCursor = 1
    /\ statusMessage = "Message empty"
    /\ ~sendingMessage
    /\ sendCalls = <<>>


\* C18: the viewer leaves compose mode only when the user cancels (escape or
\* ctrl+c) or a send completes successfully; a failed send sets the status to
\* 'Message failed: ...', keeps compose mode and the typed text, and clears the
\* sending flag, after which a submit is accepted again.
C18_ComposeEndsByCancelOrSuccess ==
    /\ [][(composingMode # Null /\ composingMode' = Null) =>
            \/ CancelCompose
            \/ \E status \in SendStatuses("steer") \cup SendStatuses("followUp") :
                  SendResolve(status) /\ ~closed]_vars
    /\ [][(SendReject /\ ~closed) =>
            /\ statusMessage' = "Message failed"
            /\ UNCHANGED <<composingMode, composeText, composeCursor>>
            /\ ~sendingMessage']_vars
    /\ []((~Browsing /\ ~sendingMessage) => \A mode \in SubmitModes : ENABLED SubmitCompose(mode))

\* a send has failed in compose mode: the typed text is still there and no
\* send is in flight
C18_Witness ==
    /\ ~Browsing
    /\ statusMessage = "Message failed"
    /\ composeText = <<"a">>
    /\ ~sendingMessage
    /\ sendCalls = <<>>
    /\ ~closed


\* what handleInput does with an input in compose mode (diff.ts 574-577, 718-780)
ComposeInput ==
    \/ CancelCompose
    \/ \E mode \in SubmitModes : SubmitCompose(mode)
    \/ \E key \in EditKeys : EditKey(key)
    \/ \E data \in TypedData : TypeText(data)

\* a send that completes and ends compose mode
ComposeSent ==
    /\ ~Browsing
    /\ \E status \in SendStatuses("steer") \cup SendStatuses("followUp") : SendResolve(status)

\* C19: from entering compose mode until leaving it (by send or cancel) no input
\* changes fileIndex, scrollOffset, the snapshot, the highlight generation or a
\* cache, closes the viewer or starts a refresh: the handlers of the browsing
\* keys (file step, scroll, refresh, close) do not run in compose mode, and the
\* step that leaves compose mode, a cancel or a completed send, keeps the file
\* and the scroll position.
C19_ComposeInputKeepsBrowsingState ==
    /\ [](~Browsing =>
            /\ \A delta \in AllScrollDeltas : ~ENABLED Scroll(delta)
            /\ \A delta \in {-1, 1} : ~ENABLED StepFile(delta)
            /\ ~ENABLED Close
            /\ ~ENABLED RefreshStart
            /\ ~ENABLED StartCompose)
    /\ [][(StartCompose \/ ComposeInput \/ ComposeSent) =>
            UNCHANGED <<fileIndex, scrollOffset, snapshot, highlightGeneration,
                        splitRowsCache, bodyLayoutCache, sidebarDataCache, highlightCache,
                        closed, refreshing, refreshCalls>>]_vars

\* compose mode was entered on the second file, scrolled down, and cancelled
\* after typing: the file and the offset are as they were
C19_Witness ==
    /\ Browsing
    /\ statusMessage = "Compose cancelled"
    /\ fileIndex = 1
    /\ scrollOffset = 2
    /\ ~refreshing
    /\ refreshCalls = 0


(***************************************************************************)
(* Properties of unbound input                                             *)
(***************************************************************************)
\* codes with the wheel bit: bit 0 clear, and bit 0 set
WheelUpCodes == {64, 68, 80, 192}
WheelDownCodes == {65, 69, 193}

\* C20: in browsing mode an input that matches no bound key and is no wheel
\* report changes no viewer state and requests no render; so does a mouse
\* report whose button code lacks the wheel bit (64); a wheel report scrolls by
\* 3 lines (stopping at 0), up when bit 0 of the code is clear and down when it
\* is set, and changes nothing else but the render request.
C20_OnlyWheelReportsScroll ==
    [][\A data \in UnboundInputs :
          HandleUnboundInput(data) =>
              IF data.kind = "mouse" /\ data.code \in WheelUpCodes \cup WheelDownCodes
              THEN /\ scrollOffset' = (IF data.code \in WheelUpCodes
                                       THEN Max(0, scrollOffset - 3)
                                       ELSE scrollOffset + 3)
                   /\ renderRequested'
                   /\ UNCHANGED <<snapshot, fileIndex, closed, refreshing, statusMessage,
                                  composingMode, highlightGeneration, splitRowsCache,
                                  bodyLayoutCache, sidebarDataCache, highlightCache,
                                  highlightQueueHigh, highlightQueueLow, highlightTimer,
                                  highlightResumeTimer>>
              ELSE UNCHANGED vars]_vars

\* a wheel report has scrolled the first of four files down by three lines
C20_Witness ==
    /\ FileCount(snapshot) = 4
    /\ fileIndex = 0
    /\ scrollOffset = 3
    /\ renderRequested
    /\ sidebarDataCache = <<>>


(***************************************************************************)
(* Properties of the highlight worker and its queues                       *)
(***************************************************************************)
\* C21: when the tokenizer throws for a task, the worker stores the task's
\* unstyled text under the task's cache key, leaves every cache entry that was
\* there as it was, and goes on with the tasks after it: those of the same
\* batch are dequeued and written like any other, and those left over keep a
\* worker timer pending; the worker's step always completes.
C21_TokenizerFailureStoresPlainText ==
    /\ [][\A n \in 1..Len(highlightQueueHigh) + Len(highlightQueueLow) :
            (ProcessHighlightChunk(n) /\ ~closed) =>
                LET queue == highlightQueueHigh \o highlightQueueLow
                IN  /\ highlightQueueHigh' \o highlightQueueLow'
                          = SubSeq(queue, n + 1, Len(queue))
                    /\ \A key \in DOMAIN highlightCache :
                          /\ key \in DOMAIN highlightCache'
                          /\ highlightCache'[key] = highlightCache[key]
                    /\ \A i \in 1..n :
                          (/\ queue[i].generation = highlightGeneration
                           /\ queue[i].cacheKey \notin DOMAIN highlightCache) =>
                              /\ queue[i].cacheKey \in DOMAIN highlightCache'
                              /\ highlightCache'[queue[i].cacheKey] =
                                    IF TokenizerThrows(queue[i].text)
                                    THEN <<"plain", queue[i].text>>
                                    ELSE <<"styled", queue[i].text>>
                    /\ n < Len(queue) => (highlightTimer' /\ workerTimers' > 0)]_vars
    /\ []((workerTimers > 0 /\ ~closed) =>
            \A n \in 1..Len(highlightQueueHigh) + Len(highlightQueueLow) :
                LET st == ProcessTasks(n, highlightGeneration,
                              [high |-> highlightQueueHigh, low |-> highlightQueueLow,
                               cache |-> highlightCache, done |-> highlightDone,
                               changed |-> FALSE, tokenized |-> <<>>])
                IN  /\ Len(st.high) + Len(st.low)
                          = Len(highlightQueueHigh) + Len(highlightQueueLow) - n
                    /\ st.done = highlightDone + Len(st.tokenized))

\* the worker has emptied its queues; the line the tokenizer fails on is stored
\* unstyled and the other line of the file styled
C21_Witness ==
    /\ highlightQueueHigh = <<>> /\ highlightQueueLow = <<>>
    /\ \E k1 \in DOMAIN highlightCache : \E k2 \in DOMAIN highlightCache :
          /\ highlightCache[k1] = <<"plain", "y">>
          /\ highlightCache[k2] = <<"styled", "wide">>
    /\ highlightDone = 2


\* the lines rebuildHighlightQueue looks at: those of the files that are not
\* binary and whose path resolves to a language, as <<file index, line>>
HighlightableLines(snap) ==
    UNION {{<<i, line>> : line \in UNION {SeqRange(FileAt(snap, i).hunks[h].lines) :
                                            h \in 1..Len(FileAt(snap, i).hunks)}} :
             i \in {j \in 0..FileCount(snap) - 1 :
                      ~FileAt(snap, j).isBinary /\ getSyntaxLanguage(FileAt(snap, j)) # Null}}

WantedKeys(a) ==
    {k \in {highlightKey(a.gen, il[1], il[2], LineText(il[2])) : il \in HighlightableLines(a.snapshot)} :
        k \notin DOMAIN a.cache}

\* the place of a key's first line in its file
FirstLineOf(snap, key) ==
    LET lines == HunkLines(FileAt(snap, key.fileIndex).hunks)
    IN CHOOSE n \in 1..Len(lines) :
        /\ highlightKey(key.generation, key.fileIndex, lines[n], LineText(lines[n])) = key
        /\ \A m \in 1..n - 1 :
             highlightKey(key.generation, key.fileIndex, lines[m], LineText(lines[m])) # key

InFileOrder(snap, queue) ==
    \A i \in 1..Len(queue) : \A j \in i + 1..Len(queue) :
        \/ queue[i].cacheKey.fileIndex < queue[j].cacheKey.fileIndex
        \/ /\ queue[i].cacheKey.fileIndex = queue[j].cacheKey.fileIndex
           /\ FirstLineOf(snap, queue[i].cacheKey) < FirstLineOf(snap, queue[j].cacheKey)

\* C22: right after rebuildHighlightQueue(p) on an open viewer the two queues
\* hold exactly one task for each distinct key, not yet cached, of the lines of
\* the non-binary files that have a language, and no other task; the tasks of
\* file p are in the high queue, the others in the low queue in file order;
\* every task has the current generation; the queued-key set is the set of the
\* queued tasks' keys; highlightTotal = highlightDone + the number queued
C22_RebuildQueuesExactlyUncachedKeys ==
    callResult # <<>> =>
        LET a == callArgs
            hs == callResult[1].hs
            all == hs.high \o hs.low
        IN /\ {t.cacheKey : t \in SeqRange(all)} = WantedKeys(a)
           /\ Len(all) = Cardinality(WantedKeys(a))
           /\ \A t \in SeqRange(hs.high) : t.cacheKey.fileIndex = a.primary
           /\ \A t \in SeqRange(hs.low) : t.cacheKey.fileIndex # a.primary
           /\ InFileOrder(a.snapshot, hs.high)
           /\ InFileOrder(a.snapshot, hs.low)
           /\ \A t \in SeqRange(all) : t.generation = a.gen /\ t.cacheKey.generation = a.gen
           /\ callResult[1].queuedKeys = {t.cacheKey : t \in SeqRange(all)}
           /\ hs.total = hs.done + Len(all)

\* a rebuild for the last of three files that queued that file's uncached line
\* first and another file's lines after it, one key being cached already, and
\* replaced an older queue
C22_Witness ==
    /\ callResult # <<>>
    /\ callArgs.snapshot = <<FileWide, FileBinaryHunks, FileRepeat>>
    /\ callArgs.primary = 2
    /\ callArgs.hs.high # <<>>
    /\ Len(callResult[1].hs.high) = 1
    /\ Len(callResult[1].hs.low) = 2
    /\ callResult[1].hs.done = 1
    /\ callResult[1].hs.total = 4


(***************************************************************************)
(* Properties of the parser on several hunks and files                     *)
(***************************************************************************)
\* the hunk headers of the texts and the line numbers they name
HeaderStarts(header) ==
    IF header = Line_Hunk THEN [old |-> 1, new |-> 1]
    ELSE IF header = Line_HunkLater THEN [old |-> 12, new |-> 7]
    ELSE [old |-> NoLine, new |-> NoLine]

\* how many of the first n lines are of one of the types
CountOfTypes(lines, n, types) == Cardinality({m \in 1..n : lines[m].type \in types})

ParsedFiles == SeqRange(files) \cup SeqRange(currentFile)

HunkNumbered(hunk) ==
    \A n \in 1..Len(hunk.lines) :
        LET line == hunk.lines[n]
            start == HeaderStarts(hunk.header)
        IN /\ line.type \in {"context", "remove"} =>
                line.oldLineNumber = start.old + CountOfTypes(hunk.lines, n, {"context", "remove"}) - 1
           /\ line.type \in {"context", "add"} =>
                line.newLineNumber = start.new + CountOfTypes(hunk.lines, n, {"context", "add"}) - 1
           /\ line.type = "add" => line.oldLineNumber = NoLine
           /\ line.type = "remove" => line.newLineNumber = NoLine
           /\ line.type \in {"context", "add", "remove"}

\* C23: in every parsed hunk with header '@@ -O... +N... @@' the k-th line of
\* the old side (context or remove) has oldLineNumber O+k-1 and the k-th line
\* of the new side (context or add) has newLineNumber N+k-1; add lines have no
\* oldLineNumber, remove lines no newLineNumber, context lines both; the
\* counters of a hunk do not carry into the next hunk or the next file
C23_HunkLinesNumberedFromHeader ==
    \A file \in ParsedFiles : \A h \in 1..Len(file.hunks) :
        /\ HeaderStarts(file.hunks[h].header).old # NoLine
        /\ HunkNumbered(file.hunks[h])

\* a text of two files read to its end: the first file's second hunk, after a
\* hunk that starts at 1/1, starts at 12/7 and has a removed and an added line
C23_Witness ==
    /\ parseDone
    /\ Len(files) = 2
    /\ Len(files[1].hunks) = 2
    /\ files[1].hunks[1].lines = <<DiffLine("remove", <<"a">>, 1, NoLine)>>
    /\ files[1].hunks[2].lines = <<DiffLine("remove", <<"a">>, 12, NoLine), DiffLine("add", <<"a">>, NoLine, 7)>>
    /\ files[2].hunks = <<>>


\* the places of the text's 'diff --git ' lines, the file block a line is in
\* (0 before the first), and whether a hunk header precedes it in its block
DiffGitPlaces == {i \in 1..Len(input) : StartsWith(input[i], Lit_DiffGit)}

BlockOf(i) == Cardinality({j \in DiffGitPlaces : j <= i})

AfterHunkHeader(i) ==
    \E j \in 1..i - 1 : input[j] \in {Line_Hunk, Line_HunkLater} /\ BlockOf(j) = BlockOf(i)

\* the lines of block k that start with one of the characters and follow a
\* hunk header of the block
HunkLinePlaces(k, lines) ==
    {i \in 1..Len(input) : BlockOf(i) = k /\ input[i] \in lines /\ AfterHunkHeader(i)}

NthDiffGitLine(k) == input[CHOOSE i \in DiffGitPlaces : BlockOf(i) = k]

\* C24: parseDiffFiles ends without error on every text and returns exactly
\* one DiffFile per 'diff --git ' line, in the order of the text; the '+', '-'
\* and ' ' lines before the first file block, or after a 'diff --git ' line
\* and before that file's first hunk header, are added to no hunk and count
\* for no file's additions or deletions
C24_OneFilePerDiffGitLine ==
    LET all == files \o currentFile
    IN /\ ~parseDone => ENABLED ParseEnd
       /\ parseDone => currentFile = <<>>
       /\ Len(all) = Cardinality(DiffGitPlaces)
       /\ \A k \in 1..Len(all) :
            /\ all[k].oldPath = (IF NthDiffGitLine(k) = Line_DiffGit THEN <<"x">> ELSE <<"y">>)
            /\ Len(HunkLines(all[k].hunks))
                 = Cardinality(HunkLinePlaces(k, {Line_Add, Line_Remove, Line_Context}))
            /\ all[k].additions = Cardinality(HunkLinePlaces(k, {Line_Add}))
            /\ all[k].deletions = Cardinality(HunkLinePlaces(k, {Line_Remove}))

\* a text read to its end that has an added line before its first file block,
\* a context line between a file's header and its first hunk header, and an
\* added line after the next file's header, which has no hunk
C24_Witness ==
    /\ parseDone
    /\ Len(input) >= 7
    /\ input[1] = Line_Add
    /\ input[3] = Line_Context
    /\ input[6] = Line_DiffGit
    /\ input[7] = Line_Add
    /\ Len(files) = 2
    /\ files[1].deletions = 1
    /\ files[1].additions = 0
    /\ files[2].hunks = <<>>
    /\ files[2].additions = 0


(***************************************************************************)
(* Properties of binary files                                              *)
(***************************************************************************)
BinaryShown == FileCount(snapshot) > 0 /\ FileAt(snapshot, fileIndex).isBinary

\* C25: for a file marked binary, whatever hunks it has, the body rendered is
\* the one-line placeholder (no rows and no layout are computed for it), its
\* maxOffset is max(0, 1 - viewportHeight) = 0, so scrollOffset is 0 after
\* every render of that file, and none of its lines is ever queued for
\* highlighting or highlighted
C25_BinaryFileShowsPlaceholderOnly ==
    /\ [][\A width \in Widths : \A rows \in TermRows :
            (BinaryShown /\ Render(width, rows)) =>
                /\ BodyTotalLines(snapshot, fileIndex, splitRowsCache, bodyLayoutCache,
                                  BodyWidth(width)) = 1
                /\ RenderFooter(width, rows) = [scrollOffset |-> 0, maxOffset |-> 0]
                /\ Max(0, 1 - viewportHeight(rows)) = 0
                /\ scrollOffset' = 0
                /\ splitRowsCache' = splitRowsCache
                /\ bodyLayoutCache' = bodyLayoutCache]_vars
    /\ []((BinaryShown /\ ~renderRequested) => scrollOffset = 0)
    /\ [](\A t \in SeqRange(highlightQueueHigh) \cup SeqRange(highlightQueueLow) :
            ~FileAt(snapshot, t.cacheKey.fileIndex).isBinary)
    /\ [](\A key \in DOMAIN highlightCache : ~FileAt(snapshot, key.fileIndex).isBinary)

\* the binary file that has a hunk is shown, rendered at offset 0, with no rows
\* computed for it, after the other file was shown and highlighted
C25_Witness ==
    /\ snapshot = <<FileBinaryHunks, FileWide>>
    /\ fileIndex = 0
    /\ ~renderRequested
    /\ scrollOffset = 0
    /\ DOMAIN splitRowsCache = {1}
    /\ highlightDone = 2
    /\ highlightTotal = 2


(***************************************************************************)
(* Properties of renamed files                                             *)
(***************************************************************************)
BlockLines(k) == {i \in 1..Len(input) : BlockOf(i) = k /\ i \notin DiffGitPlaces}

\* block k holds 'rename from' and 'rename to' lines and nothing else
RenameBlock(k) ==
    /\ \E i \in BlockLines(k) : input[i] = Line_RenameFrom
    /\ \E i \in BlockLines(k) : input[i] \in {Line_RenameTo, Line_RenameToSame}
    /\ \A i \in BlockLines(k) : input[i] \in {Line_RenameFrom, Line_RenameTo, Line_RenameToSame}

\* the path of block k's last 'rename to' line
RenamedTo(k) ==
    LET places == {i \in BlockLines(k) : input[i] \in {Line_RenameTo, Line_RenameToSame}}
        last == CHOOSE i \in places : \A j \in places : j <= i
    IN IF input[last] = Line_RenameTo THEN <<"q">> ELSE <<"p">>

RenameBlockParsed(k) ==
    /\ files[k].status = "renamed"
    /\ files[k].oldPath = <<"p">>
    /\ files[k].newPath = RenamedTo(k)
    /\ files[k].hunks = <<>>
    /\ files[k].additions = 0
    /\ files[k].deletions = 0

\* the step that commits the file in progress
CommitsFile == currentFile # <<>> /\ Len(files') = Len(files) + 1

\* commitCurrent changes the status of a file still marked modified only
NormalisesModifiedOnly ==
    [][CommitsFile =>
          LET file == currentFile[1]
              committed == files'[Len(files')]
          IN /\ file.status # "modified" => committed = file
             /\ file.status = "modified" =>
                  committed = [file EXCEPT !.status =
                                  IF file.oldPath = <<>> /\ file.newPath # <<>> THEN "added"
                                  ELSE IF file.oldPath # <<>> /\ file.newPath = <<>> THEN "deleted"
                                  ELSE "modified"]]_vars

\* C26 as stated: a file block of 'rename from P' and 'rename to Q' lines and
\* no hunk is returned with status renamed, oldPath P, newPath Q, no hunks and
\* zero additions and deletions, and is displayed with the path 'P -> Q'; the
\* normalisation at commit changes the status of files still marked modified
\* only, never of a file marked renamed, added or deleted
C26_RenameShownAsOldArrowNew ==
    /\ [](\A k \in 1..Len(files) : RenameBlock(k) =>
            /\ RenameBlockParsed(k)
            /\ getDisplayPath(files[k]) = <<"p", " ", Arrow, " ">> \o RenamedTo(k))
    /\ NormalisesModifiedOnly

\* C26, amended: such a block is returned with status renamed, oldPath P,
\* newPath Q, no hunks and zero additions and deletions; it is displayed with
\* the path 'P -> Q' when P and Q differ and with the path Q alone when they are
\* the same; the normalisation at commit changes the status of files still
\* marked modified only
C26_RenameShownWithArrowIfPathsDiffer ==
    /\ [](\A k \in 1..Len(files) : RenameBlock(k) =>
            /\ RenameBlockParsed(k)
            /\ getDisplayPath(files[k]) =
                  IF RenamedTo(k) # <<"p">> THEN <<"p", " ", Arrow, " ", "q">> ELSE <<"p">>)
    /\ NormalisesModifiedOnly

\* a text read to its end: a block renaming p to q, and a block with no paths in
\* its header that a 'rename to' line marked renamed, which stays renamed
C26_Witness ==
    /\ parseDone
    /\ input = <<Line_DiffGitRename, Line_RenameFrom, Line_RenameTo, Line_DiffGitBare>>
    /\ Len(files) = 2
    /\ getDisplayPath(files[1]) = <<"p", " ", Arrow, " ", "q">>
    /\ files[1].status = "renamed"
    /\ files[2].status = "modified"


(***************************************************************************)
(* Properties of the sidebar's entry list                                  *)
(***************************************************************************)
PathOfFile(snap, i) == getSyntaxPath(FileAt(snap, i))

\* the directory a file is in: its path without the last part
DirOfFile(snap, i) ==
    IF PathOfFile(snap, i) = <<>> THEN <<>>
    ELSE SubSeq(PathOfFile(snap, i), 1, Len(PathOfFile(snap, i)) - 1)

IsPrefix(p, q) == Len(p) <= Len(q) /\ SubSeq(q, 1, Len(p)) = p

\* the directories of the trie: the prefixes of the files' directories
DirPaths(snap) ==
    UNION {{SubSeq(DirOfFile(snap, i), 1, d) : d \in 1..Len(DirOfFile(snap, i))} :
             i \in 0..FileCount(snap) - 1}

\* the nodes of the trie: one per directory, one per file
TrieNodes(snap) ==
    {[kind |-> "dir", path |-> p, fileIndex |-> -1] : p \in DirPaths(snap)}
    \cup {[kind |-> "file", path |-> DirOfFile(snap, i), fileIndex |-> i] :
            i \in 0..FileCount(snap) - 1}

\* the first file of the snapshot that lies in or below a directory
FirstAppearance(snap, dir) ==
    CHOOSE i \in 0..FileCount(snap) - 1 :
        /\ IsPrefix(dir, DirOfFile(snap, i))
        /\ \A j \in 0..i - 1 : ~IsPrefix(dir, DirOfFile(snap, j))

CommonLength(p, q) ==
    CHOOSE c \in 0..Min(Len(p), Len(q)) :
        /\ SubSeq(p, 1, c) = SubSeq(q, 1, c)
        /\ c < Min(Len(p), Len(q)) => p[c + 1] # q[c + 1]

\* the depth-first order of the trie: a directory before everything in it;
\* below a common directory, sub-directories in order of first appearance,
\* each with its subtree, before the directory's own files in snapshot order
ComesBefore(snap, a, b) ==
    LET c == CommonLength(a.path, b.path)
    IN IF a.kind = "dir" /\ c = Len(a.path) /\ (b.kind = "file" \/ Len(b.path) > c) THEN TRUE
       ELSE IF b.kind = "dir" /\ c = Len(b.path) /\ (a.kind = "file" \/ Len(a.path) > c) THEN FALSE
       ELSE IF Len(a.path) > c /\ Len(b.path) > c
            THEN FirstAppearance(snap, SubSeq(a.path, 1, c + 1))
                 < FirstAppearance(snap, SubSeq(b.path, 1, c + 1))
       ELSE IF Len(a.path) > c THEN TRUE
       ELSE IF Len(b.path) > c THEN FALSE
       ELSE a.kind = "file" /\ b.kind = "file" /\ a.fileIndex < b.fileIndex

\* the entry of a node: a directory's depth is that of its parent plus one, a
\* file's depth the number of directories above it
EntryOf(node) ==
    IF node.kind = "dir"
    THEN [kind |-> "dir", depth |-> Len(node.path) - 1, name |-> node.path[Len(node.path)],
          fileIndex |-> -1]
    ELSE [kind |-> "file", depth |-> Len(node.path), name |-> "", fileIndex |-> node.fileIndex]

TraversalOf(snap) ==
    LET nodes == TrieNodes(snap)
    IN [r \in 1..Cardinality(nodes) |->
          EntryOf(CHOOSE n \in nodes :
                      Cardinality({m \in nodes : ComesBefore(snap, m, n)}) = r - 1)]

\* C27: the sidebar's entry list is the depth-first traversal of the trie of the
\* files' paths in which, at every directory, the sub-directories come first in
\* order of first appearance in the snapshot, each followed by its subtree, and
\* then the directory's own files in snapshot order; every directory and every
\* file appears exactly once; an entry's depth is its number of ancestors
C27_SidebarIsTrieTraversal ==
    callResult # <<>> =>
        /\ callResult[1] = TraversalOf(callArgs[1])
        /\ \A i \in 0..FileCount(callArgs[1]) - 1 :
             Cardinality({k \in 1..Len(callResult[1]) :
                            callResult[1][k].kind = "file" /\ callResult[1][k].fileIndex = i}) = 1

\* the entries of a snapshot that lists a file at the root first, then a file
\* two directories down, then a file in the first of those directories
C27_Witness ==
    /\ callResult # <<>>
    /\ Len(callArgs[1]) = 3
    /\ [k \in 1..3 |-> callArgs[1][k].newPath] = <<<<"LICENSE">>, <<"src", "lib", "b.ts">>, <<"src", "a.ts">>>>
    /\ callResult[1] = << [kind |-> "dir", depth |-> 0, name |-> "src", fileIndex |-> -1],
                          [kind |-> "dir", depth |-> 1, name |-> "lib", fileIndex |-> -1],
                          [kind |-> "file", depth |-> 2, name |-> "", fileIndex |-> 1],
                          [kind |-> "file", depth |-> 1, name |-> "", fileIndex |-> 2],
                          [kind |-> "file", depth |-> 0, name |-> "", fileIndex |-> 0] >>


(***************************************************************************)
(* Properties of the footer                                                *)
(***************************************************************************)
\* C28: the footer shows a PR link only when the stored lookup was made for the
\* branch the host reports at that render (prBranch = the current branch); with
\* branch changes and overlapping lookups that complete in any order, a link
\* resolved for another branch than the one shown is never displayed
C28_LinkOnlyForReportedBranch ==
    /\ [][(RenderRow1 /\ footerFrame'[1].link # <<>>) =>
             /\ prBranch = normalizeBranch(gitBranch)
             /\ footerFrame'[1].link = prUrl]_vars
    /\ [](footerFrame # <<>> /\ footerFrame[1].link # <<>> =>
            /\ footerFrame[1].branch # <<>>
            /\ footerFrame[1].link[1].head = footerFrame[1].branch)

\* a lookup started for another branch completed last, while a newer one is
\* still waiting: the stored link is that branch's, and the footer, rendered
\* for the branch the host reports now, shows none
C28_Witness ==
    /\ footerFrame # <<>>
    /\ footerFrame[1].branch = <<Raw_Dev>>
    /\ normalizeBranch(gitBranch) = <<Raw_Dev>>
    /\ footerFrame[1].link = <<>>
    /\ prBranch = <<Raw_Main>>
    /\ prUrl = <<[head |-> <<Raw_Main>>]>>
    /\ \E lookup \in lookups : lookup.branch = <<Raw_Dev>>


(***************************************************************************)
(* Properties of the worker's order and batch size                         *)
(***************************************************************************)
QueuedCount == Len(highlightQueueHigh) + Len(highlightQueueLow)

IsSuffix(s, t) == Len(s) <= Len(t) /\ s = SubSeq(t, Len(t) - Len(s) + 1, Len(t))

\* the tasks an invocation that runs for n tasks hands to the tokenizer, in order
TokenizedBy(n) ==
    ProcessTasks(n, highlightGeneration,
                 [high |-> highlightQueueHigh, low |-> highlightQueueLow,
                  cache |-> highlightCache, done |-> highlightDone,
                  changed |-> FALSE, tokenized |-> <<>>]).tokenized

\* C29: the worker takes a task from the low queue only when the high queue is
\* empty at that moment, takes the tasks of each queue in FIFO order, and
\* processes at most 120 tasks in one invocation
C29_HighFirstFifoAtMost120 ==
    /\ [][(workerTimers > 0 /\ ~closed) =>
             /\ QueuedCount - QueuedCount' \in 0..120
             /\ IsSuffix(highlightQueueHigh', highlightQueueHigh)
             /\ IsSuffix(highlightQueueLow', highlightQueueLow)
             /\ highlightQueueLow' # highlightQueueLow => highlightQueueHigh' = <<>>]_vars
    /\ [](\A n \in BatchSizes \cap 1..120 :
            n <= QueuedCount =>
                TokenizedBy(n) = SubSeq(highlightQueueHigh \o highlightQueueLow, 1, n))
    /\ [](workerTimers > 0 => ~ENABLED ProcessHighlightChunk(121))

\* an invocation has processed 120 tasks, the two of the high queue and then
\* the first of the low queue, and left the others queued with a timer pending
C29_Witness ==
    /\ fileIndex = 0
    /\ highlightDone = 120
    /\ highlightQueueHigh = <<>>
    /\ Len(highlightQueueLow) = highlightTotal - 120
    /\ highlightQueueLow # <<>>
    /\ highlightTimer


(***************************************************************************)
(* Properties of the worker's timer                                        *)
(***************************************************************************)
WorkerPending == highlightTimer \/ workerTimers > 0

\* C30: whenever a highlight worker timer is pending, at least one of the two
\* queues is non-empty; and whenever the viewer is open, no handler is running
\* and a queue is non-empty, a worker timer is pending
C30_TimerPendingIffWorkQueued ==
    /\ WorkerPending => (highlightQueueHigh # <<>> \/ highlightQueueLow # <<>>)
    /\ (~closed /\ (highlightQueueHigh # <<>> \/ highlightQueueLow # <<>>)) =>
          (highlightTimer /\ workerTimers = 1)

\* the worker has processed one task of a refreshed snapshot's two and has armed
\* its timer again for the other; no resume timer is pending
C30_Witness ==
    /\ ~closed
    /\ highlightGeneration > 0
    /\ highlightDone = 1
    /\ Len(highlightQueueHigh) + Len(highlightQueueLow) = 1
    /\ highlightTimer
    /\ workerTimers = 1
    /\ ~highlightResumeTimer


(***************************************************************************)
(* The viewer under its host's scheduling: a timer that stays pending      *)
(* fires (setTimeout callbacks are run by the event loop).                 *)
(***************************************************************************)
WorkerFires ==
    \E n \in 1..Min(ChunkTaskLimit, Max(1, Len(highlightQueueHigh) + Len(highlightQueueLow))) :
        ProcessHighlightChunk(n)

\* WF_vars(ResumeHighlight): the callback is enabled exactly when a resume timer
\* is live, which is written out here
ResumeTimerFires == []<>(resumeTimers = 0) \/ []<><<ResumeHighlight>>_vars

\* the steps that touch the scheduler or what it reads, and render
NextLive ==
    \/ \E delta \in {-1, 1} : StepFile(delta)
    \/ Close
    \/ RefreshStart
    \/ \E snap \in SnapshotPool : RefreshResolve(snap)
    \/ RefreshReject
    \/ Invalidate
    \/ \E width \in Widths : \E rows \in TermRows : Render(width, rows)
    \/ WorkerFires
    \/ ResumeHighlight

SpecLive == Init /\ [][NextLive]_vars /\ WF_vars(WorkerFires) /\ ResumeTimerFires

\* a file step, an installed refresh or an invalidate
Disturbance ==
    \/ \E delta \in {-1, 1} : StepFile(delta)
    \/ \E snap \in SnapshotPool : RefreshResolve(snap)
    \/ Invalidate

\* every key rebuildHighlightQueue enumerates for the snapshot is cached
AllKeysCached ==
    WantedKeys([snapshot |-> snapshot, gen |-> highlightGeneration, cache |-> EmptyMap])
        \subseteq DOMAIN highlightCache

Settled ==
    /\ highlightQueueHigh = <<>> /\ highlightQueueLow = <<>>
    /\ AllKeysCached
    /\ highlightDone = highlightTotal
    /\ ~highlightTimer /\ workerTimers = 0
    /\ ~highlightResumeTimer /\ resumeTimers = 0

\* C31: if from some point on the viewer stays open and no file step, installed
\* refresh or invalidate occurs, and pending timers fire, then eventually both
\* queues are empty, every key enumerated for the snapshot and generation is in
\* the cache, highlightDone = highlightTotal and no worker or resume timer is
\* pending, and it stays so
C31_WorkerEventuallySettles ==
    \/ []<><<Disturbance>>_vars
    \/ <>closed
    \/ <>[]Settled

\* after a refresh and a step to the second file the worker has cached both of
\* its keys and nothing is pending
C31_Witness ==
    /\ ~closed
    /\ highlightGeneration = 1
    /\ snapshot = <<FileBinary, FileWide>>
    /\ fileIndex = 1
    /\ Settled
    /\ highlightTotal = 2


(***************************************************************************)
(* The viewer on snapshots with two files that are highlighted, so that    *)
(* both queues hold tasks.                                                 *)
(***************************************************************************)
TwoFileSnapshots == { <<FileWide, FileRepeat>>, <<FileRepeat, FileBinary, FileWide>> }

InitQueues ==
    /\ snapshot \in TwoFileSnapshots
    /\ fileIndex = 0
    /\ scrollOffset = 0
    /\ refreshing = FALSE
    /\ statusMessage = ""
    /\ closed = FALSE
    /\ composingMode = Null
    /\ composeText = <<>>
    /\ composeCursor = 0
    /\ sendingMessage = FALSE
    /\ splitRowsCache = EmptyMap
    /\ bodyLayoutCache = EmptyMap
    /\ sidebarDataCache = <<>>
    /\ highlightGeneration = 0
    /\ highlightCache = EmptyMap
    /\ LET hs == rebuildHighlightQueue(
                     [high |-> <<>>, low |-> <<>>, timer |-> FALSE, resume |-> FALSE,
                      workerTimers |-> 0, resumeTimers |-> 0, total |-> 0, done |-> 0],
                     snapshot, 0, 0, EmptyMap, FALSE)
       IN /\ highlightQueueHigh = hs.high
          /\ highlightQueueLow = hs.low
          /\ highlightTimer = hs.timer
          /\ highlightResumeTimer = hs.resume
          /\ workerTimers = hs.workerTimers
          /\ resumeTimers = hs.resumeTimers
          /\ highlightTotal = hs.total
          /\ highlightDone = hs.done
    /\ refreshCalls = 0
    /\ sendCalls = <<>>
    /\ renderRequested = FALSE
    /\ ParserIdle
    /\ FooterIdle
    /\ TodoIdle
    /\ NoCall

NextQueues ==
    \/ \E delta \in {-1, 1} : StepFile(delta)
    \/ Close
    \/ RefreshStart
    \/ \E snap \in SnapshotPool \cup TwoFileSnapshots : RefreshResolve(snap)
    \/ RefreshReject
    \/ Invalidate
    \/ WorkerFires
    \/ ResumeHighlight

SpecQueues == InitQueues /\ [][NextQueues]_vars

QueuesMatchFile ==
    /\ \A t \in SeqRange(highlightQueueHigh) : t.cacheKey.fileIndex = fileIndex
    /\ \A t \in SeqRange(highlightQueueLow) : t.cacheKey.fileIndex # fileIndex

QueuesRebuiltFor(snap, index, gen, cache) ==
    /\ FileCount(snap) > 0
    /\ highlightQueueHigh' = BuildQueues(snap, index, gen, cache).high
    /\ highlightQueueLow' = BuildQueues(snap, index, gen, cache).low

\* C32: every task of the high queue belongs to file fileIndex and every task
\* of the low queue to another file; a step that changes fileIndex leaves the
\* queues empty or rebuilt for the new fileIndex
C32_QueuesSplitByCurrentFile ==
    /\ []QueuesMatchFile
    /\ [][fileIndex' # fileIndex =>
            \/ highlightQueueHigh' = <<>> /\ highlightQueueLow' = <<>>
            \/ QueuesRebuiltFor(snapshot', fileIndex', highlightGeneration', highlightCache')]_vars

\* after a step to the second file and the resume callback, the high queue holds
\* the second file's two tasks and the low queue the first file's
C32_Witness ==
    /\ snapshot = <<FileWide, FileRepeat>>
    /\ fileIndex = 1
    /\ Len(highlightQueueHigh) = 2
    /\ Len(highlightQueueLow) = 2
    /\ highlightQueueHigh[1].cacheKey.fileIndex = 1
    /\ highlightQueueLow[1].cacheKey.fileIndex = 0
    /\ highlightTimer


(***************************************************************************)
(* The sidebar data cache under navigation, render, refresh and invalidate *)
(***************************************************************************)
NextSidebarCache ==
    \/ \E delta \in {-1, 1, WheelStep} : Scroll(delta)
    \/ \E delta \in {-1, 1} : StepFile(delta)
    \/ \E width \in Widths : \E rows \in TermRows : Render(width, rows)
    \/ RefreshStart
    \/ \E snap \in NavSnapshots : RefreshResolve(snap)
    \/ Invalidate
    \/ WorkerFires
    \/ ResumeHighlight

SpecSidebarCache == InitNav /\ [][NextSidebarCache]_vars

\* the positions of the file entries of an entry list
FileEntryPlaces(entries, f) ==
    {k \in 1..Len(entries) : entries[k].kind = "file" /\ entries[k].fileIndex = f}

SidebarDataOfSnapshot ==
    sidebarDataCache # <<>> =>
        LET data == sidebarDataCache[1]
            indices == 0..FileCount(snapshot) - 1
        IN /\ data.entries = buildSidebarEntries(snapshot)
           /\ Len(data.fileOrder) = FileCount(snapshot)
           /\ SeqRange(data.fileOrder) = indices
           /\ DOMAIN data.fileOrderIndex = indices
           /\ \A k \in 1..Len(data.fileOrder) : data.fileOrderIndex[data.fileOrder[k]] = k - 1
           /\ DOMAIN data.fileEntryIndex = indices
           /\ \A f \in indices : FileEntryPlaces(data.entries, f) = {data.fileEntryIndex[f] + 1}

\* C33: cached sidebar data is the data of the current snapshot: its entries are
\* the snapshot's entries, fileOrder is a permutation of the file indices,
\* fileOrderIndex is its inverse and fileEntryIndex gives the place of each
\* file's entry; the cache is discarded by every step that replaces the snapshot
\* or invalidates, and by no other step
C33_SidebarDataOfCurrentSnapshot ==
    /\ []SidebarDataOfSnapshot
    /\ [][/\ highlightGeneration' # highlightGeneration => sidebarDataCache' = <<>>
          /\ (highlightGeneration' = highlightGeneration /\ sidebarDataCache # <<>>) =>
                sidebarDataCache' = sidebarDataCache]_vars

\* the data of the four-file snapshot, cached by a render after a refresh, has
\* survived a file step and a scroll: its order differs from the snapshot's
C33_Witness ==
    /\ snapshot = <<FilePlain, FileBinary, FileNested, FileWide>>
    /\ highlightGeneration = 1
    /\ sidebarDataCache # <<>>
    /\ sidebarDataCache[1].fileOrder # <<0, 1, 2, 3>>
    /\ fileIndex = sidebarDataCache[1].fileOrder[2]
    /\ scrollOffset > 0


(***************************************************************************)
(* Properties of the two sides of the split rows                           *)
(***************************************************************************)
\* the cells of one side of the line rows, top to bottom, without the absent ones
SideCells(rows, side) ==
    LET lineRows == SelectSeq(rows, LAMBDA r : r.type = "line")
        cells == [k \in 1..Len(lineRows) |->
                     IF side = "left" THEN lineRows[k].left ELSE lineRows[k].right]
    IN SelectSeq(cells, LAMBDA c : c # Absent)

\* the lines of a file of these types, in diff order
LinesOfTypes(file, types) == SelectSeq(HunkLines(file.hunks), LAMBDA l : l.type \in types)

\* C34: the left cells of a file's split rows, read top to bottom, are the
\* file's context and removed lines in diff order, the right cells are its
\* context and added lines in diff order, and no line row has both cells absent
C34_SidesKeepDiffOrder ==
    callResult # <<>> =>
        LET file == callArgs[1]
            rows == callResult[1]
        IN /\ SideCells(rows, "left") = LinesOfTypes(file, {"context", "remove"})
           /\ SideCells(rows, "right") = LinesOfTypes(file, {"context", "add"})
           /\ \A k \in 1..Len(rows) :
                rows[k].type = "line" => (rows[k].left # Absent \/ rows[k].right # Absent)

\* a hunk whose run has an added line before the removed lines, then a context
\* line, followed by a second hunk: the left side reads remove, remove, context
C34_Witness ==
    /\ callResult # <<>>
    /\ Len(callArgs[1].hunks) = 2
    /\ LET lines == callArgs[1].hunks[1].lines
       IN  /\ Len(lines) = 4
           /\ lines[1].type = "add"
           /\ lines[2].type = "remove"
           /\ lines[3].type = "remove"
           /\ lines[4].type = "context"
           /\ SubSeq(SideCells(callResult[1], "left"), 1, 3) = <<lines[2], lines[3], lines[4]>>
           /\ SubSeq(SideCells(callResult[1], "right"), 1, 2) = <<lines[1], lines[4]>>


(***************************************************************************)
(* Properties of fileIndex                                                 *)
(***************************************************************************)
\* C35: fileIndex is a valid index of snapshot.files when the snapshot has a
\* file, and 0 when it has none, after any file steps, refreshes (also to fewer
\* files, after steps made while the fetch was in flight) and invalidations
C35_FileIndexValid ==
    IF FileCount(snapshot) > 0 THEN ValidIndex(snapshot, fileIndex) ELSE fileIndex = 0

\* a fetch is in flight and the user has since stepped to the last of four
\* files; the step's resume timer is still pending
C35_Witness ==
    /\ refreshing /\ refreshCalls = 1
    /\ FileCount(snapshot) = 4
    /\ fileIndex = 3
    /\ highlightResumeTimer
    /\ statusMessage = "Refreshing diff..."


(***************************************************************************)
(* The two asynchronous calls of the viewer, refresh and send, with the    *)
(* keys that start them and the keys of compose mode.                      *)
(***************************************************************************)
NextCalls ==
    \/ Close
    \/ RefreshStart
    \/ \E snap \in SnapshotPool : RefreshResolve(snap)
    \/ RefreshReject
    \/ StartCompose
    \/ CancelCompose
    \/ \E mode \in {"steer", "followUp"} : SubmitCompose(mode)
    \/ \E data \in TypedData : TypeText(data)
    \/ \E status \in SendStatuses("steer") \cup SendStatuses("followUp") : SendResolve(status)
    \/ SendReject

SpecCalls == Init /\ [][NextCalls]_vars

\* at most one call of each kind is in flight, and the flags say so
OneCallInFlight ==
    /\ refreshCalls <= 1
    /\ Len(sendCalls) <= 1
    /\ refreshCalls = 1 => refreshing
    /\ sendCalls # <<>> => sendingMessage

\* the keys that would start a second call, or re-enter compose mode, do nothing
SecondCallIgnored ==
    /\ refreshing => ~ENABLED RefreshStart
    /\ sendingMessage => /\ \A mode \in {"steer", "followUp"} : ~ENABLED SubmitCompose(mode)
                         /\ ~ENABLED StartCompose

\* on an open viewer with no call of the kind in flight the keys work again
NextCallAccepted ==
    /\ (~closed /\ Browsing /\ refreshCalls = 0) => ENABLED RefreshStart
    /\ (~closed /\ Browsing /\ sendCalls = <<>>) => ENABLED StartCompose
    /\ (~closed /\ ~Browsing /\ sendCalls = <<>> /\ ~Blank(composeText)) =>
          \A mode \in {"steer", "followUp"} : ENABLED (SubmitCompose(mode) /\ sendCalls' = <<mode>>)

\* C36: at most one refresh and at most one send are in flight; while a refresh
\* is pending the refresh key starts no fetch; while a send is pending a submit
\* starts no send and compose mode cannot be entered; once a refresh or send has
\* completed on an open viewer the flag is clear and a new one can be started
C36_OneRefreshOneSend ==
    /\ []OneCallInFlight
    /\ []SecondCallIgnored
    /\ []NextCallAccepted
    /\ [][~closed =>
            /\ refreshCalls' < refreshCalls => (~refreshing' /\ refreshCalls' = 0)
            /\ Len(sendCalls') < Len(sendCalls) => (~sendingMessage' /\ sendCalls' = <<>>)]_vars

\* a send and a fetch are both in flight, and the user has cancelled compose
\* mode during the send
C36_Witness ==
    /\ ~closed
    /\ refreshCalls = 1 /\ refreshing
    /\ sendCalls = <<"followUp">> /\ sendingMessage
    /\ composingMode = Null


(***************************************************************************)
(* Properties of the two timers together                                   *)
(***************************************************************************)
ResumePending == highlightResumeTimer \/ resumeTimers > 0

\* C37: the worker timer and the resume timer are never pending together, at
\* most one timer of each kind is live, and each field holds a handle exactly
\* when its timer is live
C37_TimersExcludeEachOther ==
    /\ ~(WorkerPending /\ ResumePending)
    /\ workerTimers <= 1
    /\ resumeTimers <= 1
    /\ highlightTimer <=> workerTimers = 1
    /\ highlightResumeTimer <=> resumeTimers = 1

\* after a step to the second file an invalidate has rebuilt the queues: the
\* worker timer is armed and no resume timer is left
C37_Witness ==
    /\ ~closed
    /\ snapshot = <<FileWide, FileRepeat>>
    /\ refreshCalls = 0 /\ ~refreshing
    /\ fileIndex = 1
    /\ highlightGeneration = 1
    /\ highlightDone = 0
    /\ workerTimers = 1
    /\ resumeTimers = 0


(***************************************************************************)
(* Compose mode on its own: the keys of compose mode, input that carries   *)
(* any of the characters of Chars (typed or pasted), the send, and render. *)
(***************************************************************************)
PastedData == TypedData \cup {<<DelChar>>, <<NelChar>>}

NextCompose ==
    \/ Close
    \/ StartCompose
    \/ CancelCompose
    \/ \E mode \in {"steer", "followUp"} : SubmitCompose(mode)
    \/ \E key \in EditKeys : EditKey(key)
    \/ \E data \in PastedData : TypeText(data)
    \/ \E width \in Widths : \E rows \in TermRows : Render(width, rows)
    \/ \E status \in SendStatuses("steer") \cup SendStatuses("followUp") : SendResolve(status)
    \/ SendReject

SpecCompose == Init /\ [][NextCompose]_vars

\* a control character: the C0 range, DELETE and the C1 range (U+0080..U+009F)
IsControlChar(c) == CodePoint(c) < 32 \/ CodePoint(c) \in 127..159

\* the parts of C38 about the cursor and about the text outside compose mode
ComposeCursorWithinText ==
    /\ composeCursor >= 0 /\ composeCursor <= Len(composeText)
    /\ Browsing => (composeText = <<>> /\ composeCursor = 0)

\* C38: 0 <= composeCursor <= length(composeText), composeText holds no control
\* character, and outside compose mode composeText is empty and composeCursor
\* is 0, also when a send completes after a cancel or after further typing
C38_ComposeTextClean ==
    /\ ComposeCursorWithinText
    /\ \A i \in 1..Len(composeText) : ~IsControlChar(composeText[i])



(***************************************************************************)
(* C39: in the footer, once no refreshPrUrl call is waiting on its lookup, *)
(* the stored PR state (prBranch, prUrl) is the result of the lookup for   *)
(* the branch updateBranch observed last, whatever the order in which      *)
(* overlapping lookups for different branches completed.                   *)
(***************************************************************************)
C39_StoredStateOfLatestBranch ==
    (footerInstalled /\ lookups = {}) =>
        /\ prBranch = currentBranch
        /\ currentBranch # <<>> => prUrl \in LookupResults(currentBranch)
        /\ currentBranch = <<>> => prUrl = <<>>


(***************************************************************************)
(* The todo list modal (src/unnamed/part_000 190-598): the closure of      *)
(* showListModal, the keys the host hands to handleInput, the confirmation *)
(* window of a delete, and the file the list is saved to. An index counts  *)
(* from 0 as in the source. createdAt is copied with its todo and never    *)
(* read, and the lines render returns are not kept.                        *)
(***************************************************************************)
MaxTodos == 2        \* commitAdd is capped here
MaxTodoText == 1     \* typing into addText is capped here

\* TODO_DIFFICULTY_ORDER (src/unnamed/part_000 19)
TODO_DIFFICULTY_ORDER == <<"easy", "medium", "hard">>
DEFAULT_TODO_DIFFICULTY == "medium"

\* the keys the host sends: "e" and " " are also text in input mode
TodoKeys == {"escape", "enter", "up", "down", "left", "right", "alt+backspace", "alt+left",
             "alt+right", "backspace", "delete", " ", "e", "tab"}

\* data.length === 1 && data.charCodeAt(0) >= 32
TodoTextKeys == {" ", "e"}

\* the lists the file can hold when /todo is run, as writeTodos leaves them
StoredTodos ==
    { <<>>,
      << <<[id |-> 1, text |-> <<"e">>, difficulty |-> "medium"]>> >>,
      << <<[id |-> 1, text |-> <<"e">>, difficulty |-> "easy"]>>,
         <<[id |-> 2, text |-> <<"e", "e">>, difficulty |-> "hard"]>> >> }

\* todos[index]: <<>> when there is no such element
TodoAt(todos, index) ==
    IF index \in 0..(Len(todos) - 1) THEN todos[index + 1] ELSE <<>>

\* todos.splice(start, 1)
SpliceOut(todos, start) ==
    IF start < Len(todos)
    THEN SubSeq(todos, 1, start) \o SubSeq(todos, start + 2, Len(todos))
    ELSE todos

\* todos.splice(start, 0, item): a start past the end is the end
SpliceIn(todos, start, item) ==
    LET at == Min(start, Len(todos))
    IN SubSeq(todos, 1, at) \o <<item>> \o SubSeq(todos, at + 1, Len(todos))

\* todo.text of an undefined element is a TypeError
CanNormalize(todos) == \A i \in 1..Len(todos) : todos[i] # <<>>

\* normalizeDifficulty (src/unnamed/part_000 37-40)
normalizeDifficulty(value) ==
    IF value \in {"easy", "medium", "hard"} THEN value ELSE DEFAULT_TODO_DIFFICULTY

\* normalizeTodos (src/unnamed/part_000 42-49)
normalizeTodos(todos) ==
    [i \in 1..Len(todos) |->
        <<[id |-> i, text |-> todos[i][1].text,
           difficulty |-> normalizeDifficulty(todos[i][1].difficulty)]>>]

\* readTodos (src/unnamed/part_000 51-78) of a file writeTodos wrote: every
\* item is kept, and the sort by id finds them in order
readTodos(file) == normalizeTodos(file)

\* shiftDifficulty (src/unnamed/part_000 151-155)
shiftDifficulty(current, delta) ==
    LET currentIndex == CHOOSE i \in 1..Len(TODO_DIFFICULTY_ORDER) : TODO_DIFFICULTY_ORDER[i] = current
        nextIndex == Max(1, Min(Len(TODO_DIFFICULTY_ORDER), currentIndex + delta))
    IN TODO_DIFFICULTY_ORDER[nextIndex]

\* findWordLeft (src/unnamed/part_000 157-162)
RECURSIVE SkipLeft(_, _, _)
SkipLeft(text, i, spaces) ==
    IF i > 0 /\ ((text[i] = " ") <=> spaces) THEN SkipLeft(text, i - 1, spaces) ELSE i

findWordLeft(text, cursor) == SkipLeft(text, SkipLeft(text, cursor, TRUE), FALSE)

\* findWordRight (src/unnamed/part_000 164-169)
RECURSIVE SkipRight(_, _, _)
SkipRight(text, i, spaces) ==
    IF i < Len(text) /\ ((text[i + 1] = " ") <=> spaces) THEN SkipRight(text, i + 1, spaces) ELSE i

findWordRight(text, cursor) == SkipRight(text, SkipRight(text, cursor, TRUE), FALSE)

\* the closure's variables; threw: this handler has ended with a TypeError
Modal ==
    [modalOpen |-> modalOpen, modalTodos |-> modalTodos, selected |-> selected,
     grabbedIndex |-> grabbedIndex, grabSnapshot |-> grabSnapshot,
     pendingDeleteIndex |-> pendingDeleteIndex, pendingDeleteAt |-> pendingDeleteAt,
     statusLine |-> statusLine, modalMode |-> modalMode, addText |-> addText,
     addCursor |-> addCursor, editIndex |-> editIndex, todoFile |-> todoFile, threw |-> FALSE]

SetModal(m) ==
    /\ modalOpen' = m.modalOpen
    /\ modalTodos' = m.modalTodos
    /\ selected' = m.selected
    /\ grabbedIndex' = m.grabbedIndex
    /\ grabSnapshot' = m.grabSnapshot
    /\ pendingDeleteIndex' = m.pendingDeleteIndex
    /\ pendingDeleteAt' = m.pendingDeleteAt
    /\ statusLine' = m.statusLine
    /\ modalMode' = m.modalMode
    /\ addText' = m.addText
    /\ addCursor' = m.addCursor
    /\ editIndex' = m.editIndex
    /\ todoFile' = m.todoFile
    /\ modalThrew' = (modalThrew \/ m.threw)

\* clampSelected (src/unnamed/part_000 209-215)
clampSelected(m) ==
    IF Len(m.modalTodos) = 0 THEN [m EXCEPT !.selected = 0]
    ELSE [m EXCEPT !.selected = Max(0, Min(m.selected, Len(m.modalTodos) - 1))]

\* clearDeleteConfirm (src/unnamed/part_000 217-220)
clearDeleteConfirm(m) ==
    [m EXCEPT !.pendingDeleteIndex = <<>>, !.pendingDeleteAt = "Never"]

\* writeTodos (src/unnamed/part_000 80-84)
writeTodos(m) ==
    IF CanNormalize(m.modalTodos)
    THEN [m EXCEPT !.todoFile = normalizeTodos(m.modalTodos)]
    ELSE [m EXCEPT !.threw = TRUE]

\* saveAndRefresh (src/unnamed/part_000 222-226)
saveAndRefresh(m) ==
    LET written == writeTodos(m)
    IN IF written.threw THEN written
       ELSE clampSelected([written EXCEPT !.modalTodos = readTodos(written.todoFile)])

\* clearInputMode (src/unnamed/part_000 228-233)
clearInputMode(m) ==
    [m EXCEPT !.modalMode = "browse", !.addText = <<>>, !.addCursor = 0, !.editIndex = <<>>]

\* startGrab (src/unnamed/part_000 235-241)
startGrab(m) ==
    IF Len(m.modalTodos) = 0 THEN m
    ELSE clearDeleteConfirm([m EXCEPT !.grabSnapshot = <<m.modalTodos>>,
                                      !.grabbedIndex = <<m.selected>>,
                                      !.statusLine = ""])

\* dropGrab (src/unnamed/part_000 243-250)
dropGrab(m) ==
    IF m.grabbedIndex = <<>> THEN m
    ELSE LET saved == saveAndRefresh(m)
         IN IF saved.threw THEN saved
            ELSE clearDeleteConfirm([saved EXCEPT !.grabbedIndex = <<>>,
                                                  !.grabSnapshot = <<>>,
                                                  !.statusLine = ""])

\* cancelGrab (src/unnamed/part_000 252-262)
cancelGrab(m) ==
    IF m.grabbedIndex = <<>> THEN m
    ELSE LET restored == IF m.grabSnapshot # <<>>
                         THEN clampSelected([m EXCEPT !.modalTodos = m.grabSnapshot[1]])
                         ELSE m
         IN clearDeleteConfirm([restored EXCEPT !.grabbedIndex = <<>>,
                                                !.grabSnapshot = <<>>,
                                                !.statusLine = ""])

\* moveGrabbed (src/unnamed/part_000 264-276)
moveGrabbed(m, delta) ==
    IF m.grabbedIndex = <<>> THEN m
    ELSE LET from == m.grabbedIndex[1]
             to == Max(0, Min(Len(m.modalTodos) - 1, from + delta))
             moving == TodoAt(m.modalTodos, from)
         IN IF to = from THEN m
            ELSE [m EXCEPT !.modalTodos = SpliceIn(SpliceOut(m.modalTodos, from), to, moving),
                           !.grabbedIndex = <<to>>,
                           !.selected = to,
                           !.statusLine = ""]

\* adjustSelectedDifficulty (src/unnamed/part_000 278-290)
adjustSelectedDifficulty(m, delta) ==
    LET todo == TodoAt(m.modalTodos, m.selected)
    IN IF Len(m.modalTodos) = 0 \/ todo = <<>> THEN m
       ELSE LET nextDifficulty == shiftDifficulty(todo[1].difficulty, delta)
                changed == [m EXCEPT !.modalTodos[m.selected + 1] =
                                         <<[todo[1] EXCEPT !.difficulty = nextDifficulty]>>]
                written == IF m.grabbedIndex = <<>> THEN writeTodos(changed) ELSE changed
            IN IF nextDifficulty = todo[1].difficulty THEN m
               ELSE IF written.threw THEN written
               ELSE clearDeleteConfirm([written EXCEPT !.statusLine = ""])

\* startEdit (src/unnamed/part_000 292-303)
startEdit(m) ==
    LET todo == TodoAt(m.modalTodos, m.selected)
    IN IF Len(m.modalTodos) = 0 \/ m.grabbedIndex # <<>> \/ todo = <<>> THEN m
       ELSE clearDeleteConfirm([m EXCEPT !.modalMode = "edit",
                                         !.editIndex = <<m.selected>>,
                                         !.addText = todo[1].text,
                                         !.addCursor = Len(todo[1].text),
                                         !.statusLine = ""])

\* commitEdit (src/unnamed/part_000 305-323)
commitEdit(m) ==
    IF m.editIndex = <<>> THEN m
    ELSE IF Trim(m.addText) = <<>> THEN [m EXCEPT !.statusLine = "Todo text required."]
    ELSE LET todo == TodoAt(m.modalTodos, m.editIndex[1])
             saved == saveAndRefresh([m EXCEPT !.modalTodos[m.editIndex[1] + 1] =
                                                   <<[todo[1] EXCEPT !.text = m.addText]>>])
         IN IF todo = <<>> THEN clearInputMode(m)
            ELSE IF saved.threw THEN saved
            ELSE [clearDeleteConfirm(clearInputMode(
                     [saved EXCEPT !.selected =
                          Max(0, Min(m.editIndex[1], Len(saved.modalTodos) - 1))]))
                  EXCEPT !.statusLine = ""]

\* commitAdd (src/unnamed/part_000 325-342)
commitAdd(m) ==
    IF Trim(m.addText) = <<>> THEN [m EXCEPT !.statusLine = "Todo text required."]
    ELSE LET pushed == Append(m.modalTodos,
                              <<[id |-> 0, text |-> m.addText,
                                 difficulty |-> DEFAULT_TODO_DIFFICULTY]>>)
             saved == saveAndRefresh([m EXCEPT !.modalTodos = pushed])
         IN IF saved.threw THEN saved
            ELSE [clearDeleteConfirm(clearInputMode(
                     [saved EXCEPT !.selected = Max(0, Len(saved.modalTodos) - 1)]))
                  EXCEPT !.statusLine = ""]

\* handleInput in add or edit mode (src/unnamed/part_000 422-489)
handleInputText(m, data) ==
    CASE data = "escape" -> [clearInputMode(m) EXCEPT !.statusLine = ""]
      [] data = "enter" -> IF m.modalMode = "add" THEN commitAdd(m) ELSE commitEdit(m)
      [] data = "alt+backspace" ->
            IF m.addCursor > 0
            THEN LET nextCursor == findWordLeft(m.addText, m.addCursor)
                 IN [m EXCEPT !.addText = SubSeq(m.addText, 1, nextCursor)
                                          \o SubSeq(m.addText, m.addCursor + 1, Len(m.addText)),
                              !.addCursor = nextCursor]
            ELSE m
      [] data = "alt+left" -> [m EXCEPT !.addCursor = findWordLeft(m.addText, m.addCursor)]
      [] data = "alt+right" -> [m EXCEPT !.addCursor = findWordRight(m.addText, m.addCursor)]
      [] data = "backspace" ->
            IF m.addCursor > 0
            THEN [m EXCEPT !.addText = SubSeq(m.addText, 1, m.addCursor - 1)
                                       \o SubSeq(m.addText, m.addCursor + 1, Len(m.addText)),
                           !.addCursor = m.addCursor - 1]
            ELSE m
      [] data = "left" -> [m EXCEPT !.addCursor = Max(0, m.addCursor - 1)]
      [] data = "right" -> [m EXCEPT !.addCursor = Min(Len(m.addText), m.addCursor + 1)]
      [] data \in TodoTextKeys ->
            [m EXCEPT !.addText = SubSeq(m.addText, 1, m.addCursor) \o <<data>>
                                  \o SubSeq(m.addText, m.addCursor + 1, Len(m.addText)),
                      !.addCursor = m.addCursor + 1]
      [] OTHER -> m

\* handleInput, isDeleteTap branch (src/unnamed/part_000 566-592)
deleteTap(m) ==
    LET index == m.selected
        confirmed == m.pendingDeleteIndex = <<index>> /\ m.pendingDeleteAt = "Recent"
        saved == saveAndRefresh([m EXCEPT !.modalTodos = SpliceOut(m.modalTodos, index)])
    IN IF Len(m.modalTodos) = 0
       THEN clearDeleteConfirm([m EXCEPT !.statusLine = "No todos to delete."])
       ELSE IF ~confirmed
       THEN [m EXCEPT !.pendingDeleteIndex = <<index>>,
                      !.pendingDeleteAt = "Recent",
                      !.statusLine = "Press delete again to remove selected todo."]
       ELSE IF saved.threw THEN saved
       ELSE clearDeleteConfirm([saved EXCEPT !.statusLine = "Deleted todo."])

\* handleInput in browse mode (src/unnamed/part_000 491-594)
handleInputBrowse(m, data) ==
    CASE data = "escape" ->
            IF m.grabbedIndex # <<>> THEN cancelGrab(m) ELSE [m EXCEPT !.modalOpen = FALSE]
      [] data = "up" ->
            clearDeleteConfirm(
                IF m.grabbedIndex # <<>> THEN moveGrabbed(m, -1)
                ELSE [m EXCEPT !.selected = Max(0, m.selected - 1), !.statusLine = ""])
      [] data = "down" ->
            clearDeleteConfirm(
                IF m.grabbedIndex # <<>> THEN moveGrabbed(m, 1)
                ELSE [m EXCEPT !.selected = Min(Max(0, Len(m.modalTodos) - 1), m.selected + 1),
                               !.statusLine = ""])
      [] data = "left" -> adjustSelectedDifficulty(m, -1)
      [] data = "right" -> adjustSelectedDifficulty(m, 1)
      [] m.grabbedIndex # <<>> /\ data \in {" ", "enter"} -> dropGrab(m)
      [] m.grabbedIndex = <<>> /\ data = "enter" ->
            clearDeleteConfirm([m EXCEPT !.modalMode = "add", !.editIndex = <<>>,
                                         !.addText = <<>>, !.addCursor = 0, !.statusLine = ""])
      [] data = "e" -> startEdit(m)
      [] m.grabbedIndex = <<>> /\ data = " " -> startGrab(m)
      [] data \in {"delete", "backspace"} -> deleteTap(m)
      [] OTHER -> m

\* handleInput (src/unnamed/part_000 421-595)
handleInput(m, data) ==
    IF m.modalMode \in {"add", "edit"} THEN handleInputText(m, data) ELSE handleInputBrowse(m, data)

\* /todo with no arguments: runTodoCommand reads the file and showListModal
\* clones the list into a new closure (src/unnamed/part_000 190-207, 629-632)
ShowListModal ==
    /\ ~modalOpen
    /\ SetModal([Modal EXCEPT !.modalOpen = TRUE, !.modalTodos = readTodos(todoFile),
                              !.selected = 0, !.grabbedIndex = <<>>, !.grabSnapshot = <<>>,
                              !.pendingDeleteIndex = <<>>, !.pendingDeleteAt = "Never",
                              !.statusLine = "", !.modalMode = "browse", !.addText = <<>>,
                              !.addCursor = 0, !.editIndex = <<>>])
    /\ UNCHANGED <<viewerVars, parserVars, callVars, footerVars>>

\* the host hands a key to handleInput (src/unnamed/part_000 421-595)
ModalKey(data) ==
    /\ modalOpen
    /\ (modalMode \in {"add", "edit"} /\ data \in TodoTextKeys) => Len(addText) < MaxTodoText
    /\ (modalMode = "add" /\ data = "enter") => Len(modalTodos) < MaxTodos
    /\ SetModal(handleInput(Modal, data))
    /\ UNCHANGED <<viewerVars, parserVars, callVars, footerVars>>

\* DELETE_CONFIRM_WINDOW_MS go by since the first tap (src/unnamed/part_000 18, 576)
ConfirmWindowPasses ==
    /\ modalOpen
    /\ pendingDeleteAt = "Recent"
    /\ pendingDeleteAt' = "Expired"
    /\ UNCHANGED <<modalOpen, modalTodos, selected, grabbedIndex, grabSnapshot,
                   pendingDeleteIndex, statusLine, modalMode, addText, addCursor, editIndex,
                   todoFile, modalThrew, viewerVars, parserVars, callVars, footerVars>>

\* render (src/unnamed/part_000 346-419): the loop reads todo.difficulty of
\* every element
ModalRender ==
    /\ modalOpen
    /\ LET m == IF pendingDeleteIndex # <<>> /\ pendingDeleteAt = "Expired"
                THEN clearDeleteConfirm(Modal) ELSE Modal
       IN SetModal([m EXCEPT !.threw = /\ modalMode = "browse"
                                       /\ ~CanNormalize(modalTodos)])
    /\ UNCHANGED <<viewerVars, parserVars, callVars, footerVars>>

InitTodo ==
    /\ ViewerIdle /\ ParserIdle /\ NoCall /\ FooterIdle
    /\ modalOpen = FALSE
    /\ modalTodos = <<>>
    /\ selected = 0
    /\ grabbedIndex = <<>>
    /\ grabSnapshot = <<>>
    /\ pendingDeleteIndex = <<>>
    /\ pendingDeleteAt = "Never"
    /\ statusLine = ""
    /\ modalMode = "browse"
    /\ addText = <<>>
    /\ addCursor = 0
    /\ editIndex = <<>>
    /\ todoFile \in StoredTodos
    /\ modalThrew = FALSE

NextTodo ==
    \/ ShowListModal
    \/ \E data \in TodoKeys : ModalKey(data)
    \/ ConfirmWindowPasses
    \/ ModalRender

SpecTodo == InitTodo /\ [][NextTodo]_vars

(***************************************************************************)
(* C40: in the todo list modal, after any sequence of keys, whenever an    *)
(* item is grabbed the grabbed index is a valid index of the list and      *)
(* equals the selected index, and every element of the list is a todo      *)
(* item; also when delete is tapped twice while an item is grabbed.        *)
(***************************************************************************)
C40_GrabbedItemValid ==
    modalOpen =>
        /\ CanNormalize(modalTodos)
        /\ grabbedIndex # <<>> =>
              /\ grabbedIndex[1] \in 0..(Len(modalTodos) - 1)
              /\ grabbedIndex[1] = selected

====
